---- MODULE Spec2Model ----
(***************************************************************************)
(* Recipe ingestion pipeline of white-povar: the job state machine of      *)
(* RecipeProcessor.process_file, the review and reprocess endpoints, the   *)
(* IngestionService worker pool and the inbox file watcher.                *)
(*                                                                         *)
(* A step of a coroutine is one awaited persistence / AI call taking       *)
(* effect, followed by the synchronous code that runs until the next       *)
(* await is issued.  proc[p].pc names the call a coroutine is waiting on.  *)
(***************************************************************************)
EXTENDS Integers, Sequences, FiniteSets, TLC

(* ---------------------------------------------------------------------- *)
(* Program constants                                                       *)
(* ---------------------------------------------------------------------- *)
max_retries == 3
num_workers == 2
\* AIRecipeParser: asyncio.Semaphore(4) and max_retries = 2
ParsePermits == 4
parse_max_retries == 2
ReviewThreshold == 75
MaxIssues == 3

(* ---------------------------------------------------------------------- *)
(* Bounds of the model                                                     *)
(* ---------------------------------------------------------------------- *)
MaxJobs == 2
MaxFiles == 2
\* Concurrent callers of parse_recipe (workers and direct callers together).
MaxParseCallers == 5
MaxStored == 2
MaxCalls == 2
MaxCreated == 4

(* ---------------------------------------------------------------------- *)
(* Universe                                                                *)
(* ---------------------------------------------------------------------- *)
Paths == {"a.txt", "b.txt"}
Dirs == {"processed", "failed", "dlq"}
\* What a file holds decides what the extractor and the validator make of it.
\*   bad  : no text can be extracted (extract_text raises)
\*   A    : clean recipe, confidence 0.90, fingerprint 1
\*   B    : confidence 0.60, no critical issue, fingerprint 1
\*   C    : clean recipe, fingerprint 2, title close to fingerprint 1
\*   D    : four quality issues, confidence 0.80, fingerprint 3
\*   E    : a critical issue, fingerprint 3
Contents == {"bad", "A", "B", "C", "D", "E"}
\* What the two inbox paths hold, over a run.
Plan(a, b) == [p \in Paths |-> IF p = "a.txt" THEN a ELSE b]
ContentPlans == {Plan("A", "A"), Plan("A", "B"), Plan("A", "C"), Plan("D", "E"), Plan("bad", "A")}
Workers == 1..(2 * num_workers)
\* Request slots of the HTTP endpoints that call process_single_file.
Apis == {2 * num_workers + 1}
Procs == Workers \cup Apis
Reviewers == {"rv1"}
Decisions == {"APPROVED", "REJECTED", "NEEDS_REVISION"}
Statuses == {"PENDING", "PROCESSING", "NEEDS_REVIEW", "COMPLETED", "FAILED", "DLQ", "COMPLETED_DUPLICATE"}

VARIABLES content, inbox, dirs, nfiles, jobs, recipes, fps, proc, queue, is_running, watcher_running, worker_tasks, stopping, events, handling, rv

\* The AI parser: the value of its semaphore and the parse_recipe calls.
VARIABLES semaphore, parse_calls

\* The pipeline, and the components studied on their own.
ingestVars == <<content, inbox, dirs, nfiles, jobs, recipes, fps, proc, queue, is_running, watcher_running, worker_tasks, stopping, events, handling, rv>>
parserVars == <<semaphore, parse_calls>>
\* start() step by step: the entries of the inbox directory, whether the
\* FileWatcher has its handler, where the call is, and what the scan of the
\* existing files has looked at and enqueued.
VARIABLES listing, handler, start_pc, scanned, drained
startVars == <<listing, handler, start_pc, scanned, drained>>
\* The deduplicator on its own: the recipe_fingerprints rows and the
\* check_duplicates call.
VARIABLES fp_rows, check
dedupeVars == <<fp_rows, check>>
\* The validator on its own: the recipe it is given and what it returned.
VARIABLES parsed_recipe, verdict
validatorVars == <<parsed_recipe, verdict>>
\* The ingredient matcher on its own: its two caches, the catalog tables
\* they are loaded from, the successful loads of each, for every
\* ingredient list the calls made with it and what the first and the
\* latest of them returned, and the call that is running.
VARIABLES base_ingredients_cache, units_cache, base_ingredients, units, loads, processed, matching
matcherVars == <<base_ingredients_cache, units_cache, base_ingredients, units, loads, processed, matching>>
\* The directory manager on its own: the files of the ingestion
\* directories, the number of files created so far, and what the latest
\* move_file call was given and did.
VARIABLES tree, created, moved
moveVars == <<tree, created, moved>>
\* review_job on its own: one job row and the review requests under way.
VARIABLES review_row, review_calls
reviewVars == <<review_row, review_calls>>
compVars == <<parserVars, startVars, dedupeVars, validatorVars, matcherVars, moveVars, reviewVars>>
\* What the steps of one component leave alone.
parserRest == <<reviewVars, moveVars, ingestVars, startVars, dedupeVars, validatorVars, matcherVars>>
startRest == <<reviewVars, moveVars, parserVars, dedupeVars, validatorVars, matcherVars>>
dedupeRest == <<reviewVars, moveVars, ingestVars, parserVars, startVars, validatorVars, matcherVars>>
validatorRest == <<reviewVars, moveVars, ingestVars, parserVars, startVars, dedupeVars, matcherVars>>
matcherRest == <<reviewVars, ingestVars, parserVars, startVars, dedupeVars, validatorVars, moveVars>>
moveRest == <<reviewVars, ingestVars, parserVars, startVars, dedupeVars, validatorVars, matcherVars>>
reviewRest == <<ingestVars, parserVars, startVars, dedupeVars, validatorVars, matcherVars, moveVars>>

vars == <<ingestVars, compVars>>

fsVars == <<inbox, dirs, nfiles>>
dbVars == <<jobs, recipes, fps>>
svcVars == <<is_running, watcher_running, worker_tasks, stopping>>
watchVars == <<events, handling>>

(* ---------------------------------------------------------------------- *)
(* Records                                                                 *)
(* ---------------------------------------------------------------------- *)
NoMeta == [issues |-> 0, similar |-> {}, parsed |-> "none"]

\* A row as create_ingestion_job inserts it: status PENDING, every other
\* column at its default.
NewJob(path) == [source_path |-> path, status |-> "PENDING", retries |-> 0, error_message |-> "none", confidence_score |-> 0, recipe_id |-> 0, duplicate_of_recipe_id |-> 0, meta |-> NoMeta, reviewer_notes |-> FALSE]

NoResult == [returned |-> FALSE, success |-> FALSE, job_id |-> 0, recipe_id |-> 0, error_message |-> "none", confidence_score |-> 0, needs_review |-> FALSE, is_duplicate |-> FALSE, duplicate_of_recipe_id |-> 0]

ProcessingResult(success, job, rid, err, conf, review, dup, dupid) == [returned |-> TRUE, success |-> success, job_id |-> job, recipe_id |-> rid, error_message |-> err, confidence_score |-> conf, needs_review |-> review, is_duplicate |-> dup, duplicate_of_recipe_id |-> dupid]

\* Locals of one process_file call, and of the coroutine that makes it.
FreshProc(pc) == [pc |-> pc, call |-> "none", path |-> "none", job |-> 0, dup |-> 0, sim |-> {}, rid |-> 0, r |-> 0, err |-> "none", res |-> NoResult]

IdleReview == [pc |-> "idle", job |-> 0, decision |-> "none"]

RestPc(p) == IF p \in Workers THEN "waiting" ELSE "idle"

Merge(row, updates) == [k \in DOMAIN row |-> IF k \in DOMAIN updates THEN updates[k] ELSE row[k]]

update_ingestion_job(table, j, updates) == [table EXCEPT ![j] = Merge(table[j], updates)]

(* ---------------------------------------------------------------------- *)
(* Validator and deduplicator, as functions of what the file holds         *)
(* ---------------------------------------------------------------------- *)
HasCritical(c) == c = "E"
QualityConfidence(c) == CASE c = "A" -> 90 [] c = "B" -> 60 [] c = "C" -> 90 [] c = "D" -> 80 [] OTHER -> 0
QualityIssues(c) == CASE c = "D" -> 4 [] c = "E" -> 1 [] OTHER -> 0
FingerprintOf(c) == CASE c = "C" -> 2 [] c = "D" -> 3 [] c = "E" -> 3 [] OTHER -> 1

\* validate_recipe: a critical issue gives (False, issues, 0.0); otherwise
\* is_valid is "not needs_review" of the validator's own thresholds.
ValidatorNeedsReview(c) == QualityConfidence(c) < ReviewThreshold \/ QualityIssues(c) > MaxIssues
IsValid(c) == IF HasCritical(c) THEN FALSE ELSE ~ValidatorNeedsReview(c)
Confidence(c) == IF HasCritical(c) THEN 0 ELSE QualityConfidence(c)

\* Candidates of the fuzzy search: same cuisine, time within tolerance and a
\* title ratio at or above the threshold; an identical fingerprint qualifies.
SimilarFp(f, g) == f = g \/ {f, g} = {1, 2}

ExactMatches(c) == {f.recipe_id : f \in {g \in fps : g.fingerprint_hash = FingerprintOf(c)}}
SimilarMatches(c) == {f.recipe_id : f \in {g \in fps : SimilarFp(g.fingerprint_hash, FingerprintOf(c))}}

\* Variant: similar recipes do not count.
NeedsReviewIgnoresSimilar(valid, conf, similar, issues) == ~valid \/ conf < ReviewThreshold \/ issues > MaxIssues

\* process_file, lines 81-84
NeedsReview(valid, conf, similar, issues) == ~valid \/ conf < ReviewThreshold \/ Cardinality(similar) > 0 \/ issues > MaxIssues

\* Variant: one more retry is allowed.
RetryAllowedInclusive(r) == r <= max_retries

\* _handle_processing_error, line 367
RetryAllowed(r) == r < max_retries

(* ---------------------------------------------------------------------- *)
(* Directory manager                                                       *)
(* ---------------------------------------------------------------------- *)
\* move_file picks name, name_1, name_2, ... : the first one not taken.
FirstFree(path, d) == CHOOSE k \in 0..Cardinality(dirs[d]) : <<path, k>> \notin dirs[d] /\ \A i \in 0..(k - 1) : <<path, i>> \in dirs[d]

\* source.rename raises when the source is gone.
MoveRaises(path) == ~inbox[path]

MovedInbox(path) == [inbox EXCEPT ![path] = FALSE]
MovedDirs(path, d) == [dirs EXCEPT ![d] = @ \cup {<<path, FirstFree(path, d)>>}]

(* ---------------------------------------------------------------------- *)
(* Initial states                                                          *)
(* ---------------------------------------------------------------------- *)
ParseCallers == 1..MaxParseCallers

NoCall == [pc |-> "idle", attempt |-> 0]

\* AIRecipeParser.__init__: every permit free, no call made.
ParserInit ==
    /\ semaphore = ParsePermits
    /\ parse_calls = [c \in ParseCallers |-> NoCall]

\* Directory entries: name parts, and whether the entry is a regular file.
Entry(stem, suffix, is_file) == [stem |-> stem, suffix |-> suffix, is_file |-> is_file]
Entries == {Entry("r", ".txt", TRUE), Entry("r", ".pdf", TRUE), Entry("r", ".docx", TRUE), Entry("r", ".doc", TRUE), Entry("R", ".TXT", TRUE), Entry("n", ".jpg", TRUE), Entry("sub", "", FALSE)}

\* IngestionService.__init__: no FileWatcher yet, nothing scanned.
StartInit(entries) ==
    /\ listing = entries
    /\ handler = FALSE
    /\ start_pc = "idle"
    /\ scanned = {}
    /\ drained = <<>>

\* A ParsedRecipe as the deduplicator reads it.
Recipe(title, cuisine, time) == [title |-> title, cuisine |-> cuisine, total_time_minutes |-> time]
NoRecipe == Recipe("", "", 0)
NoCheck == [pc |-> "idle", recipe |-> NoRecipe, is_duplicate |-> FALSE, exact_duplicate |-> 0, similar_ids |-> {}, searched |-> FALSE]

\* No fingerprint stored, check_duplicates not called.
DedupeInit ==
    /\ fp_rows = <<>>
    /\ check = NoCheck

\* A string as the validator reads it: its length, its length after
\* strip(), whether it holds one of the words looked for (appetizing words
\* in a description, action words in an instruction), and its full stops.
Text(len, stripped, word, stops) == [len |-> len, stripped |-> stripped, word |-> word, stops |-> stops]

\* Optional values: <<>> is None, <<v>> is v.
None == <<>>
Some(v) == <<v>>

ParsedIngredient(name, quantity_value) == [name |-> name, quantity_value |-> quantity_value]

ParsedNutrition(calories, protein, carbs, fat) == [calories_per_serving |-> calories, protein_g |-> protein, carbs_g |-> carbs, fat_g |-> fat]

\* A well-formed recipe; the inputs vary its fields.
GoodRecipe == [title |-> Text(5, 5, FALSE, 0), description |-> Text(60, 60, TRUE, 1), cuisine |-> "Italian", category |-> "Other", difficulty |-> 3, prep_time_minutes |-> 10, cook_time_minutes |-> 0, servings |-> 2, ingredients |-> <<ParsedIngredient(Text(6, 6, FALSE, 0), Some(1))>>, instructions |-> <<Text(40, 40, TRUE, 1)>>, tags |-> <<>>, nutrition |-> None, overall |-> None]

NoVerdict == [returned |-> FALSE, is_valid |-> FALSE, issues |-> <<>>, confidence |-> 0]

\* validate_recipe not called; the recipe is set by the specification.
ValidatorInit == verdict = NoVerdict

ValidatorIdle == ValidatorInit /\ parsed_recipe = GoodRecipe

\* Rows of the catalog tables.
BaseIngredient(id, name_en) == [id |-> id, name_en |-> name_en]
Unit(id, abbreviation_en, name_en) == [id |-> id, abbreviation_en |-> abbreviation_en, name_en |-> name_en]

\* The ingredient lists process_ingredients is called with.
Ingredient(name, quantity_value, unit) == [name |-> name, quantity_value |-> quantity_value, unit |-> unit]
IngredientInputs == {<<Ingredient("Onions", Some(2), "")>>, <<Ingredient("Red Onion", Some(1), "pieces"), Ingredient("fresh basil", None, "g")>>, <<Ingredient("salt", None, "to taste")>>}

NoCalls == [calls |-> 0, first |-> <<>>, latest |-> <<>>]
NoMatching == [pc |-> "idle", ingredients |-> <<>>]

\* IngredientMatcher.__init__: both caches None.  The catalog tables hold
\* what the specification gives them.
MatcherInit ==
    /\ base_ingredients_cache = None
    /\ units_cache = None
    /\ loads = [base_ingredients |-> 0, units |-> 0]
    /\ processed = [l \in IngredientInputs |-> NoCalls]
    /\ matching = NoMatching

MatcherIdle == MatcherInit /\ base_ingredients = <<>> /\ units = <<>>

NoMove == [source |-> <<>>, destination |-> "", returned |-> <<>>, raised |-> ""]

\* setup_directories: the four directories, empty.
MoveInit ==
    /\ tree = {}
    /\ created = 0
    /\ moved = NoMove

\* The clients that send review requests at the same time.
ReviewClients == {"c1", "c2"}

\* No review request is under way; the row is a job as it is created.
ReviewInit == review_calls = [k \in ReviewClients |-> IdleReview]

ReviewIdle == ReviewInit /\ review_row = NewJob("a.txt")

CompInit == ParserInit /\ StartInit({}) /\ DedupeInit /\ ValidatorIdle /\ MatcherIdle /\ MoveInit /\ ReviewIdle

InitCommon ==
    /\ content \in ContentPlans
    /\ dirs = [d \in Dirs |-> {}]
    /\ recipes = <<>>
    /\ fps = {}
    /\ queue = <<>>
    /\ is_running = FALSE
    /\ watcher_running = FALSE
    /\ worker_tasks = {}
    /\ stopping = FALSE
    /\ events = {}
    /\ handling = {}
    /\ rv = [k \in Reviewers |-> IdleReview]

\* The pipeline after construction: nothing in the inbox, no job, no call.
IngestInit ==
    /\ InitCommon
    /\ inbox = [p \in Paths |-> FALSE]
    /\ nfiles = 0
    /\ jobs = <<>>
    /\ proc = [p \in Procs |-> FreshProc(IF p \in Workers THEN "unused" ELSE "idle")]

Init == CompInit /\ IngestInit

(* ---------------------------------------------------------------------- *)
(* process_file                                                            *)
(* ---------------------------------------------------------------------- *)
\* Entry: the locals are reset and get_file_info runs before the first await.
\* A missing file raises with job_id still None: no job, a failed result.
\* At "returned" process_file has handed its result to the caller.
Returned(p, res) == [FreshProc("returned") EXCEPT !.call = proc[p].call, !.res = res]

Returns(p, res) == proc' = [proc EXCEPT ![p] = Returned(p, res)]

Enter(p, call, path) ==
    IF inbox[path]
    THEN proc' = [proc EXCEPT ![p] = [FreshProc("create_job") EXCEPT !.call = call, !.path = path]]
    ELSE proc' = [proc EXCEPT ![p] = [FreshProc("returned") EXCEPT !.call = call, !.res = ProcessingResult(FALSE, 0, 0, "error", 0, FALSE, FALSE, 0)]]

\* The caller takes the result: the worker logs it, calls task_done and waits
\* for the next path; an endpoint sends it as its response.
ResultTaken(p) ==
    /\ proc[p].pc = "returned"
    /\ proc' = [proc EXCEPT ![p] = FreshProc(RestPc(p))]
    /\ UNCHANGED <<compVars, content, fsVars, dbVars, queue, svcVars, watchVars, rv>>

\* Bound of the model: the calls of process_file made over a run.
CallsLeft == Len(jobs) + Cardinality({p \in Procs : proc[p].pc \in {"create_job", "rp_update"}}) < MaxJobs

Failure(p, err) == [proc EXCEPT ![p].pc = "err_get", ![p].err = err]

CreateJob(p) ==
    /\ proc[p].pc = "create_job"
    /\ jobs' = Append(jobs, NewJob(proc[p].path))
    /\ proc' = [proc EXCEPT ![p].pc = "mark_processing", ![p].job = Len(jobs) + 1]
    /\ UNCHANGED <<compVars, content, fsVars, recipes, fps, queue, svcVars, watchVars, rv>>

\* "if not result.data: raise" with job_id still None.
CreateJobFails(p) ==
    /\ proc[p].pc = "create_job"
    /\ Returns(p, ProcessingResult(FALSE, 0, 0, "error", 0, FALSE, FALSE, 0))
    /\ UNCHANGED <<compVars, content, fsVars, dbVars, queue, svcVars, watchVars, rv>>

\* extract_text: FileNotFoundError, or nothing to extract.
ExtractRaises(path) == ~inbox[path] \/ content[path] = "bad"

MarkProcessing(p) ==
    /\ proc[p].pc = "mark_processing"
    /\ jobs' = update_ingestion_job(jobs, proc[p].job, [status |-> "PROCESSING"])
    /\ proc' = IF ExtractRaises(proc[p].path) THEN Failure(p, "error") ELSE [proc EXCEPT ![p].pc = "parse"]
    /\ UNCHANGED <<compVars, content, fsVars, recipes, fps, queue, svcVars, watchVars, rv>>

ParseReturns(p) ==
    /\ proc[p].pc = "parse"
    /\ proc' = [proc EXCEPT ![p].pc = "dedupe_exact"]
    /\ UNCHANGED <<compVars, content, fsVars, dbVars, queue, svcVars, watchVars, rv>>

ParseRaises(p) ==
    /\ proc[p].pc = "parse"
    /\ proc' = Failure(p, "error")
    /\ UNCHANGED <<compVars, content, fsVars, dbVars, queue, svcVars, watchVars, rv>>

\* _find_exact_duplicate: the first row with the hash, if any.
FindExactDuplicate(p) ==
    /\ proc[p].pc = "dedupe_exact"
    /\ \/ \E d \in ExactMatches(content[proc[p].path]) :
             proc' = [proc EXCEPT ![p].pc = "dup_update", ![p].dup = d]
       \/ /\ ExactMatches(content[proc[p].path]) = {}
          /\ proc' = [proc EXCEPT ![p].pc = "dedupe_similar"]
    /\ UNCHANGED <<compVars, content, fsVars, dbVars, queue, svcVars, watchVars, rv>>

\* The lookup raises: logged, None returned.
FindExactDuplicateRaises(p) ==
    /\ proc[p].pc = "dedupe_exact"
    /\ proc' = [proc EXCEPT ![p].pc = "dedupe_similar"]
    /\ UNCHANGED <<compVars, content, fsVars, dbVars, queue, svcVars, watchVars, rv>>

AfterDedupe(p, similar) ==
    LET c == content[proc[p].path]
    IN  IF NeedsReview(IsValid(c), Confidence(c), similar, QualityIssues(c))
        THEN [proc EXCEPT ![p].pc = "review_update", ![p].sim = similar]
        ELSE [proc EXCEPT ![p].pc = "create_recipe", ![p].sim = similar]

FindSimilar(p) ==
    /\ proc[p].pc = "dedupe_similar"
    /\ proc' = AfterDedupe(p, SimilarMatches(content[proc[p].path]))
    /\ UNCHANGED <<compVars, content, fsVars, dbVars, queue, svcVars, watchVars, rv>>

FindSimilarRaises(p) ==
    /\ proc[p].pc = "dedupe_similar"
    /\ proc' = AfterDedupe(p, {})
    /\ UNCHANGED <<compVars, content, fsVars, dbVars, queue, svcVars, watchVars, rv>>

\* The updates process_file sends for its job on each way out.
DuplicateUpdate(p) == [status |-> "COMPLETED_DUPLICATE", duplicate_of_recipe_id |-> proc[p].dup]

ReviewRecord(p) == [status |-> "NEEDS_REVIEW", confidence_score |-> Confidence(content[proc[p].path]), meta |-> [issues |-> QualityIssues(content[proc[p].path]), similar |-> proc[p].sim, parsed |-> content[proc[p].path]]]

CompletedUpdate(p) == [status |-> "COMPLETED", recipe_id |-> proc[p].rid, confidence_score |-> Confidence(content[proc[p].path])]

FingerprintRow(p) == [recipe_id |-> proc[p].rid, fingerprint_hash |-> FingerprintOf(content[proc[p].path])]

\* _handle_duplicate, then the return of lines 73-78.
HandleDuplicate(p) ==
    /\ proc[p].pc = "dup_update"
    /\ jobs' = update_ingestion_job(jobs, proc[p].job, DuplicateUpdate(p))
    /\ IF MoveRaises(proc[p].path)
       THEN /\ proc' = Failure(p, "error")
            /\ UNCHANGED <<fsVars>>
       ELSE /\ inbox' = MovedInbox(proc[p].path)
            /\ dirs' = MovedDirs(proc[p].path, "processed")
            /\ Returns(p, ProcessingResult(TRUE, proc[p].job, 0, "none", 0, FALSE, TRUE, proc[p].dup))
            /\ UNCHANGED nfiles
    /\ UNCHANGED <<compVars, content, recipes, fps, queue, svcVars, watchVars, rv>>

\* _send_to_review, then the return of lines 89-94.
SendToReview(p) ==
    LET c == content[proc[p].path]
    IN  /\ proc[p].pc = "review_update"
        /\ jobs' = update_ingestion_job(jobs, proc[p].job, ReviewRecord(p))
        /\ Returns(p, ProcessingResult(TRUE, proc[p].job, 0, "none", Confidence(c), TRUE, FALSE, 0))
        /\ UNCHANGED <<compVars, content, fsVars, recipes, fps, queue, svcVars, watchVars, rv>>

\* _create_recipe: the recipe row and its ingredient rows.
CreateRecipe(p) ==
    /\ proc[p].pc = "create_recipe"
    /\ recipes' = Append(recipes, content[proc[p].path])
    /\ proc' = [proc EXCEPT ![p].pc = "create_fp", ![p].rid = Len(recipes) + 1]
    /\ UNCHANGED <<compVars, content, fsVars, jobs, fps, queue, svcVars, watchVars, rv>>

CreateRecipeRaises(p) ==
    /\ proc[p].pc = "create_recipe"
    /\ proc' = Failure(p, "error")
    /\ UNCHANGED <<compVars, content, fsVars, dbVars, queue, svcVars, watchVars, rv>>

\* create_fingerprint_record: the upsert.
CreateFingerprint(p) ==
    /\ proc[p].pc = "create_fp"
    /\ fps' = fps \cup {FingerprintRow(p)}
    /\ proc' = [proc EXCEPT ![p].pc = "complete_update"]
    /\ UNCHANGED <<compVars, content, fsVars, jobs, recipes, queue, svcVars, watchVars, rv>>

\* The upsert raises: logged, False returned, and the caller drops the value.
CreateFingerprintRaises(p) ==
    /\ proc[p].pc = "create_fp"
    /\ proc' = [proc EXCEPT ![p].pc = "complete_update"]
    /\ UNCHANGED <<compVars, content, fsVars, dbVars, queue, svcVars, watchVars, rv>>

\* Lines 102-120: the job is completed, then the file is moved.
Complete(p) ==
    LET c == content[proc[p].path]
    IN  /\ proc[p].pc = "complete_update"
        /\ jobs' = update_ingestion_job(jobs, proc[p].job, CompletedUpdate(p))
        /\ IF MoveRaises(proc[p].path)
           THEN /\ proc' = Failure(p, "error")
                /\ UNCHANGED <<fsVars>>
           ELSE /\ inbox' = MovedInbox(proc[p].path)
                /\ dirs' = MovedDirs(proc[p].path, "processed")
                /\ Returns(p, ProcessingResult(TRUE, proc[p].job, proc[p].rid, "none", Confidence(c), FALSE, FALSE, 0))
                /\ UNCHANGED nfiles
        /\ UNCHANGED <<compVars, content, recipes, fps, queue, svcVars, watchVars, rv>>

\* _handle_processing_error: the job is read back for its retry count.
HandleErrorRead(p) ==
    /\ proc[p].pc = "err_get"
    /\ proc' = [proc EXCEPT ![p].pc = "err_update", ![p].r = jobs[proc[p].job].retries]
    /\ UNCHANGED <<compVars, content, fsVars, dbVars, queue, svcVars, watchVars, rv>>

\* Variant: the retry is not counted.
RetryUpdateKeeps(r) == [status |-> "PENDING", retries |-> r, error_message |-> "error"]

RetryUpdate(r) == [status |-> "PENDING", retries |-> r + 1, error_message |-> "error"]

DlqUpdate == [status |-> "DLQ", error_message |-> "max_retries"]

ErrorUpdate(p) == IF RetryAllowed(proc[p].r) THEN RetryUpdate(proc[p].r) ELSE DlqUpdate

\* Lines 367-394: below max_retries the job goes back to PENDING with one
\* more retry; otherwise it goes to DLQ and the file to the dlq directory.
\* That move runs inside the try of lines 128-131: a raise is only logged.
\* Either way process_file returns the failure (lines 133-137).
HandleErrorWrite(p) ==
    /\ proc[p].pc = "err_update"
    /\ IF RetryAllowed(proc[p].r)
       THEN /\ jobs' = update_ingestion_job(jobs, proc[p].job, ErrorUpdate(p))
            /\ UNCHANGED fsVars
       ELSE /\ jobs' = update_ingestion_job(jobs, proc[p].job, ErrorUpdate(p))
            /\ IF MoveRaises(proc[p].path)
               THEN UNCHANGED fsVars
               ELSE /\ inbox' = MovedInbox(proc[p].path)
                    /\ dirs' = MovedDirs(proc[p].path, "dlq")
                    /\ UNCHANGED nfiles
    /\ Returns(p, ProcessingResult(FALSE, proc[p].job, 0, proc[p].err, 0, FALSE, FALSE, 0))
    /\ UNCHANGED <<compVars, content, recipes, fps, queue, svcVars, watchVars, rv>>

ProcessFile(p) ==
    \/ CreateJob(p)
    \/ CreateJobFails(p)
    \/ MarkProcessing(p)
    \/ ParseReturns(p)
    \/ ParseRaises(p)
    \/ FindExactDuplicate(p)
    \/ FindExactDuplicateRaises(p)
    \/ FindSimilar(p)
    \/ FindSimilarRaises(p)
    \/ HandleDuplicate(p)
    \/ SendToReview(p)
    \/ CreateRecipe(p)
    \/ CreateRecipeRaises(p)
    \/ CreateFingerprint(p)
    \/ CreateFingerprintRaises(p)
    \/ Complete(p)
    \/ HandleErrorRead(p)
    \/ HandleErrorWrite(p)
    \/ ResultTaken(p)

(* ---------------------------------------------------------------------- *)
(* Files arriving                                                          *)
(* ---------------------------------------------------------------------- *)
\* upload_recipe_file: the file is written to the inbox under a name that is
\* free there, then processed at once.
Upload(a, path) ==
    /\ a \in Apis
    /\ proc[a].pc = "idle"
    /\ ~inbox[path]
    /\ nfiles < MaxFiles
    /\ CallsLeft
    /\ inbox' = [inbox EXCEPT ![path] = TRUE]
    /\ nfiles' = nfiles + 1
    /\ events' = IF watcher_running THEN events \cup {path} ELSE events
    /\ proc' = [proc EXCEPT ![a] = [FreshProc("create_job") EXCEPT !.call = "upload", !.path = path]]
    /\ UNCHANGED <<compVars, content, dirs, dbVars, queue, svcVars, handling, rv>>

\* A file put into the inbox from outside (copied, or renamed into place).
DropFile(path) ==
    /\ ~inbox[path]
    /\ nfiles < MaxFiles
    /\ inbox' = [inbox EXCEPT ![path] = TRUE]
    /\ nfiles' = nfiles + 1
    /\ events' = IF watcher_running THEN events \cup {path} ELSE events
    /\ UNCHANGED <<compVars, content, dirs, dbVars, proc, queue, svcVars, handling, rv>>

(* ---------------------------------------------------------------------- *)
(* File watcher                                                            *)
(* ---------------------------------------------------------------------- *)
\* RecipeFileHandler.processing_files of the handler now installed.  A
\* _handle_file task of an earlier handler keeps that handler's set.
processing_files == {t.path : t \in {h \in handling : h.current}}

\* _handle_file up to its sleep: a path already in the set is ignored.
HandleFile(path) ==
    /\ path \in events
    /\ events' = events \ {path}
    /\ handling' = IF path \in processing_files THEN handling ELSE handling \cup {[path |-> path, current |-> TRUE]}
    /\ UNCHANGED <<compVars, content, fsVars, dbVars, proc, queue, svcVars, rv>>

\* _handle_file after the sleep: a file that is still there is enqueued
\* (IngestionService._enqueue_file), and the path leaves the set.
HandleFileWakes(t) ==
    /\ t \in handling
    /\ queue' = IF inbox[t.path] THEN Append(queue, t.path) ELSE queue
    /\ handling' = handling \ {t}
    /\ UNCHANGED <<compVars, content, fsVars, dbVars, proc, svcVars, events, rv>>

(* ---------------------------------------------------------------------- *)
(* IngestionService                                                        *)
(* ---------------------------------------------------------------------- *)
\* Variant: start() does not look at is_running.
NeverRunning == FALSE

AlreadyRunning == is_running

\* process_existing_files reads self.handler, which only FileWatcher.start
\* sets: with a file in the inbox the scan raises and start() ends there.
ExistingFilesScanRaises == \E path \in Paths : inbox[path]

FreeSlots == {w \in Workers : proc[w].pc = "unused"}
\* The num_workers tasks start() creates take the lowest free slots.
NewTasks == {w \in FreeSlots : Cardinality({v \in FreeSlots : v < w}) < num_workers}

Start ==
    /\ ~AlreadyRunning
    /\ ~ExistingFilesScanRaises
    /\ Cardinality(FreeSlots) >= num_workers
    /\ watcher_running' = TRUE
    /\ handling' = {[t EXCEPT !.current = FALSE] : t \in handling}
    /\ proc' = [p \in Procs |-> IF p \in NewTasks THEN FreshProc("waiting") ELSE proc[p]]
    /\ worker_tasks' = worker_tasks \cup NewTasks
    /\ is_running' = TRUE
    /\ UNCHANGED <<compVars, content, fsVars, dbVars, queue, stopping, events, rv>>

\* start() while running returns at once; start() over a non-empty inbox
\* raises out of the scan before the watcher and the workers exist.
StartChangesNothing ==
    /\ AlreadyRunning \/ ExistingFilesScanRaises
    /\ UNCHANGED vars

\* A worker takes the next path and enters process_file.  The queue wakes
\* its getters in turn and the workers are alike: the lowest waiting one.
WorkerDequeue(w) ==
    /\ w \in Workers
    /\ proc[w].pc = "waiting"
    /\ \A v \in Workers : v < w => proc[v].pc # "waiting"
    /\ queue # <<>>
    /\ CallsLeft
    /\ queue' = Tail(queue)
    /\ Enter(w, "worker", Head(queue))
    /\ UNCHANGED <<compVars, content, fsVars, dbVars, svcVars, watchVars, rv>>

\* Variant: stop() cancels no task.
CancelNone == {}

\* stop() up to its gather: the watcher is stopped and every task cancelled.
CancelTasks == worker_tasks

\* A cancelled call gets its CancelledError at the await it is in.  The
\* database call of that await runs in an executor thread, which the
\* cancellation does not stop: its write may have been sent already and
\* then takes effect although the call never resumes.
WritePcs == {"create_job", "mark_processing", "dup_update", "review_update", "create_recipe", "create_fp", "complete_update", "err_update"}

InFlight == {w \in CancelTasks : proc[w].pc \in WritePcs}

Tables == [jobs |-> jobs, recipes |-> recipes, fps |-> fps]

Landed(t, p) ==
    CASE proc[p].pc = "create_job" -> [t EXCEPT !.jobs = Append(@, NewJob(proc[p].path))]
      [] proc[p].pc = "mark_processing" -> [t EXCEPT !.jobs = update_ingestion_job(@, proc[p].job, [status |-> "PROCESSING"])]
      [] proc[p].pc = "dup_update" -> [t EXCEPT !.jobs = update_ingestion_job(@, proc[p].job, DuplicateUpdate(p))]
      [] proc[p].pc = "review_update" -> [t EXCEPT !.jobs = update_ingestion_job(@, proc[p].job, ReviewRecord(p))]
      [] proc[p].pc = "create_recipe" -> [t EXCEPT !.recipes = Append(@, content[proc[p].path])]
      [] proc[p].pc = "create_fp" -> [t EXCEPT !.fps = @ \cup {FingerprintRow(p)}]
      [] proc[p].pc = "complete_update" -> [t EXCEPT !.jobs = update_ingestion_job(@, proc[p].job, CompletedUpdate(p))]
      [] proc[p].pc = "err_update" -> [t EXCEPT !.jobs = update_ingestion_job(@, proc[p].job, ErrorUpdate(p))]
      [] OTHER -> t

RECURSIVE LandAll(_, _)
LandAll(t, calls) ==
    IF calls = {} THEN t
    ELSE LET w == CHOOSE v \in calls : \A u \in calls : v <= u
         IN  LandAll(Landed(t, w), calls \ {w})

StopBegin ==
    /\ is_running
    /\ ~stopping
    /\ watcher_running' = FALSE
    /\ events' = {}
    /\ \E sent \in SUBSET InFlight :
          /\ jobs' = LandAll(Tables, sent).jobs
          /\ recipes' = LandAll(Tables, sent).recipes
          /\ fps' = LandAll(Tables, sent).fps
    /\ proc' = [p \in Procs |-> IF p \in CancelTasks THEN FreshProc("cancelled") ELSE proc[p]]
    /\ stopping' = TRUE
    /\ UNCHANGED <<compVars, content, fsVars, queue, is_running, worker_tasks, handling, rv>>

\* Each cancelled worker gets its CancelledError at the await it is in and
\* leaves the loop; gather returns once all of them have ended.
StopEnd ==
    /\ stopping
    /\ proc' = [p \in Procs |-> IF proc[p].pc = "cancelled" THEN FreshProc("unused") ELSE proc[p]]
    /\ worker_tasks' = {}
    /\ is_running' = FALSE
    /\ stopping' = FALSE
    /\ UNCHANGED <<compVars, content, fsVars, dbVars, queue, watcher_running, watchVars, rv>>

StopChangesNothing ==
    /\ ~is_running
    /\ UNCHANGED vars

(* ---------------------------------------------------------------------- *)
(* review_job                                                              *)
(* ---------------------------------------------------------------------- *)
ReviewAllowed(row) == row.status = "NEEDS_REVIEW"

\* Lines 174-201: the job is read and the request checked; a refusal is a
\* 400 that leaves the job as it is.  The job ids offered are those of
\* existing jobs.
ReviewRead(k, j, d) ==
    /\ rv[k].pc = "idle"
    /\ j <= Len(jobs)
    /\ rv' = [rv EXCEPT ![k] = IF ReviewAllowed(jobs[j]) /\ (d = "APPROVED" => jobs[j].meta.parsed # "none") THEN [pc |-> "update", job |-> j, decision |-> d] ELSE [IdleReview EXCEPT !.pc = "refused"]]
    /\ UNCHANGED <<compVars, content, fsVars, dbVars, proc, queue, svcVars, watchVars>>

\* The response is sent: the HTTPException of a refusal, or the decision.
ReviewResponds(k) ==
    /\ rv[k].pc \in {"refused", "updated"}
    /\ rv' = [rv EXCEPT ![k] = IdleReview]
    /\ UNCHANGED <<compVars, content, fsVars, dbVars, proc, queue, svcVars, watchVars>>

\* Variant: NEEDS_REVISION leaves the retry count.
ReviewUpdateKeepsRetries(d) ==
    CASE d = "APPROVED" -> [status |-> "COMPLETED", reviewer_notes |-> TRUE]
      [] d = "REJECTED" -> [status |-> "FAILED", reviewer_notes |-> TRUE, error_message |-> "rejected"]
      [] OTHER -> [status |-> "PENDING", reviewer_notes |-> TRUE]

\* The update each decision sends (lines 206-210, 215-220, 225-230).
ReviewUpdate(d) ==
    CASE d = "APPROVED" -> [status |-> "COMPLETED", reviewer_notes |-> TRUE]
      [] d = "REJECTED" -> [status |-> "FAILED", reviewer_notes |-> TRUE, error_message |-> "rejected"]
      [] OTHER -> [status |-> "PENDING", reviewer_notes |-> TRUE, retries |-> 0]

ReviewWrite(k) ==
    /\ rv[k].pc = "update"
    /\ jobs' = update_ingestion_job(jobs, rv[k].job, ReviewUpdate(rv[k].decision))
    /\ rv' = [rv EXCEPT ![k] = [IdleReview EXCEPT !.pc = "updated"]]
    /\ UNCHANGED <<compVars, content, fsVars, recipes, fps, proc, queue, svcVars, watchVars>>

(* ---------------------------------------------------------------------- *)
(* reprocess_job                                                           *)
(* ---------------------------------------------------------------------- *)
ReprocessAllowed(row) == row.status \in {"FAILED", "DLQ"}

\* Variant: the file is not looked for.
SourceAssumed(row) == TRUE

SourceExists(row) == inbox[row.source_path]

\* Lines 113-137: the job is read, its status and its file checked; a
\* refusal is a 400 that leaves the job as it is.
ReprocessRead(a, j) ==
    /\ a \in Apis
    /\ proc[a].pc = "idle"
    /\ j <= Len(jobs)
    /\ CallsLeft
    /\ proc' = [proc EXCEPT ![a] = [FreshProc(IF ReprocessAllowed(jobs[j]) /\ SourceExists(jobs[j]) THEN "rp_update" ELSE "refused") EXCEPT !.call = "reprocess", !.job = j, !.path = jobs[j].source_path]]
    /\ UNCHANGED <<compVars, content, fsVars, dbVars, queue, svcVars, watchVars, rv>>

ReprocessRefused(a) ==
    /\ proc[a].pc = "refused"
    /\ proc' = [proc EXCEPT ![a] = FreshProc("idle")]
    /\ UNCHANGED <<compVars, content, fsVars, dbVars, queue, svcVars, watchVars, rv>>

\* Variant: reprocess_job counts the reprocessing as one more retry.
ReprocessCounts == [status |-> "PENDING", retries |-> max_retries, error_message |-> "none"]

\* Lines 140-144: status PENDING, retries 0, error_message None.
ReprocessReset == [status |-> "PENDING", retries |-> 0, error_message |-> "none"]

\* Lines 140-147: the reset, then process_single_file on the source path.
ReprocessUpdate(a) ==
    /\ proc[a].pc = "rp_update"
    /\ jobs' = update_ingestion_job(jobs, proc[a].job, ReprocessReset)
    /\ Enter(a, "reprocess", proc[a].path)
    /\ UNCHANGED <<compVars, content, fsVars, recipes, fps, queue, svcVars, watchVars, rv>>

Next ==
    \/ \E p \in Procs : ProcessFile(p)
    \/ \E a \in Apis, path \in Paths : Upload(a, path)
    \/ \E path \in Paths : DropFile(path)
    \/ \E path \in Paths : HandleFile(path)
    \/ \E t \in handling : HandleFileWakes(t)
    \/ Start
    \/ StartChangesNothing
    \/ \E w \in Workers : WorkerDequeue(w)
    \/ StopBegin
    \/ StopEnd
    \/ StopChangesNothing
    \/ \E k \in Reviewers, j \in 1..MaxJobs, d \in Decisions : ReviewRead(k, j, d)
    \/ \E k \in Reviewers : ReviewWrite(k)
    \/ \E k \in Reviewers : ReviewResponds(k)
    \/ \E a \in Apis, j \in 1..MaxJobs : ReprocessRead(a, j)
    \/ \E a \in Apis : ReprocessUpdate(a)
    \/ \E a \in Apis : ReprocessRefused(a)

Spec == Init /\ [][Next]_vars

\* _handle_processing_error takes the retry count from the stored row.  A
\* row that process_file created itself has retries 0 when it fails, so the
\* inputs of the handler are drawn here: the service is stopped and an
\* upload is in flight on a row whose stored retries is any value up to
\* max_retries.
InitStored ==
    /\ CompInit
    /\ InitCommon
    /\ \E path \in Paths, r \in 0..max_retries :
          /\ inbox = [p \in Paths |-> p = path]
          /\ nfiles = 0
          /\ jobs = <<[NewJob(path) EXCEPT !.retries = r]>>
          /\ proc = [p \in Procs |-> IF p \in Apis THEN [FreshProc("mark_processing") EXCEPT !.call = "upload", !.path = path, !.job = 1] ELSE FreshProc("unused")]

NextStored ==
    \/ \E p \in Apis : ProcessFile(p)
    \/ \E a \in Apis, path \in Paths : Upload(a, path)
    \/ \E path \in Paths : DropFile(path)
    \/ \E k \in Reviewers, j \in 1..MaxJobs, d \in Decisions : ReviewRead(k, j, d)
    \/ \E k \in Reviewers : ReviewWrite(k)
    \/ \E k \in Reviewers : ReviewResponds(k)
    \/ \E a \in Apis, j \in 1..MaxJobs : ReprocessRead(a, j)
    \/ \E a \in Apis : ReprocessUpdate(a)
    \/ \E a \in Apis : ReprocessRefused(a)

SpecStored == InitStored /\ [][NextStored]_vars

(* ---------------------------------------------------------------------- *)
(* AIRecipeParser.parse_recipe                                             *)
(* ---------------------------------------------------------------------- *)
\* Variant: a permit is handed out at zero too.
AcquireAllowedAtZero(v) == v >= 0

\* Semaphore.acquire goes through when a permit is free.
AcquireAllowed(v) == v > 0

\* ai_parser.py:164: another attempt follows a failed one.
AttemptsLeft(attempt) == attempt < parse_max_retries

\* A caller reaches "async with self.semaphore" and waits for a permit.
ParseCall(c) ==
    /\ parse_calls[c].pc = "idle"
    /\ parse_calls' = [parse_calls EXCEPT ![c] = [pc |-> "acquire", attempt |-> 0]]
    /\ UNCHANGED <<parserRest, semaphore>>

\* __aenter__: the permit is taken and the first request sent.
ParseAcquire(c) ==
    /\ parse_calls[c].pc = "acquire"
    /\ AcquireAllowed(semaphore)
    /\ semaphore' = semaphore - 1
    /\ parse_calls' = [parse_calls EXCEPT ![c].pc = "request"]
    /\ UNCHANGED parserRest

\* The request is answered, the response parsed: return inside the section,
\* __aexit__ releases the permit.  The caller may call again.
ParseSucceeds(c) ==
    /\ parse_calls[c].pc = "request"
    /\ semaphore' = semaphore + 1
    /\ parse_calls' = [parse_calls EXCEPT ![c] = NoCall]
    /\ UNCHANGED parserRest

\* _call_openai: a failed attempt with attempts left sleeps 2 ** attempt.
ParseAttemptFails(c) ==
    /\ parse_calls[c].pc = "request"
    /\ AttemptsLeft(parse_calls[c].attempt)
    /\ parse_calls' = [parse_calls EXCEPT ![c].pc = "backoff"]
    /\ UNCHANGED <<parserRest, semaphore>>

ParseRetries(c) ==
    /\ parse_calls[c].pc = "backoff"
    /\ parse_calls' = [parse_calls EXCEPT ![c] = [pc |-> "request", attempt |-> parse_calls[c].attempt + 1]]
    /\ UNCHANGED <<parserRest, semaphore>>

\* The last attempt fails, or the response cannot be parsed: the exception
\* is logged and raised again (lines 63-65) through __aexit__.
ParseFails(c) ==
    /\ parse_calls[c].pc = "request"
    /\ semaphore' = semaphore + 1
    /\ parse_calls' = [parse_calls EXCEPT ![c] = NoCall]
    /\ UNCHANGED parserRest

\* The calling task is cancelled: CancelledError is raised at the await the
\* call is in.  Waiting for a permit it holds none; inside the section
\* __aexit__ releases the one it holds.
ParseCancelled(c) ==
    /\ parse_calls[c].pc \in {"acquire", "request", "backoff"}
    /\ semaphore' = IF parse_calls[c].pc = "acquire" THEN semaphore ELSE semaphore + 1
    /\ parse_calls' = [parse_calls EXCEPT ![c] = NoCall]
    /\ UNCHANGED parserRest

NextParser ==
    \/ \E c \in ParseCallers : ParseCall(c)
    \/ \E c \in ParseCallers : ParseAcquire(c)
    \/ \E c \in ParseCallers : ParseSucceeds(c)
    \/ \E c \in ParseCallers : ParseAttemptFails(c)
    \/ \E c \in ParseCallers : ParseRetries(c)
    \/ \E c \in ParseCallers : ParseFails(c)
    \/ \E c \in ParseCallers : ParseCancelled(c)

\* The pipeline at rest, one content plan.
IngestIdle == Init /\ content = Plan("A", "A")

SpecParser == IngestIdle /\ [][NextParser]_vars

(* ---------------------------------------------------------------------- *)
(* The watcher under repeated events                                       *)
(* ---------------------------------------------------------------------- *)
\* on_moved: a rename onto a path that is already in the inbox (the writer
\* replaces the file it created with the finished one).  It counts as an
\* arrival.
FileMoved(path) ==
    /\ inbox[path]
    /\ watcher_running
    /\ nfiles < MaxFiles
    /\ nfiles' = nfiles + 1
    /\ events' = events \cup {path}
    /\ UNCHANGED <<compVars, content, inbox, dirs, dbVars, proc, queue, svcVars, handling, rv>>

\* The service is started over an empty inbox; files are dropped and renamed
\* into place while the watcher and the workers run.
NextWatcher ==
    \/ Start
    \/ \E path \in Paths : DropFile(path)
    \/ \E path \in Paths : FileMoved(path)
    \/ \E path \in Paths : HandleFile(path)
    \/ \E t \in handling : HandleFileWakes(t)
    \/ \E w \in Workers : WorkerDequeue(w)
    \/ \E w \in Workers : ProcessFile(w)

SpecWatcher == Init /\ [][NextWatcher]_vars

\* The event loop runs every task that is ready: a worker with a path to
\* take or a call under way goes on, and so does a handler with an event to
\* take or a sleep to wake from.  Nothing obliges files to arrive.
LoopFairness ==
    /\ \A w \in Workers : WF_vars(WorkerDequeue(w) \/ ProcessFile(w))
    /\ WF_vars(\E path \in Paths : HandleFile(path))
    /\ WF_vars(\E t \in handling : HandleFileWakes(t))
    /\ WF_vars(Start)

SpecWatcherFair == SpecWatcher /\ LoopFairness

\* The service with the upload endpoint as the only source of files.
NextUpload ==
    \/ Start
    \/ \E a \in Apis, path \in Paths : Upload(a, path)
    \/ \E path \in Paths : HandleFile(path)
    \/ \E t \in handling : HandleFileWakes(t)
    \/ \E w \in Workers : WorkerDequeue(w)
    \/ \E p \in Procs : ProcessFile(p)

SpecUpload == Init /\ [][NextUpload]_vars

(* ---------------------------------------------------------------------- *)
(* start() over the files already in the inbox                             *)
(* ---------------------------------------------------------------------- *)
supported_extensions == {".txt", ".pdf", ".docx", ".doc"}

\* str.lower() on the suffixes that occur.
Lower(suffix) == IF suffix = ".TXT" THEN ".txt" ELSE suffix

_is_supported_file(e) == Lower(e.suffix) \in supported_extensions

\* Lines 23-40: not running, so a new FileWatcher is built; its handler is
\* None until FileWatcher.start.
StartCall ==
    /\ start_pc = "idle"
    /\ ~is_running
    /\ handler' = FALSE
    /\ start_pc' = "scan"
    /\ UNCHANGED <<ingestVars, startRest, listing, scanned, drained>>

\* process_existing_files, one entry of iterdir(): a directory is passed
\* over; for a regular file self.handler._is_supported_file is evaluated,
\* which raises AttributeError while the handler is None; the raise leaves
\* the loop, the scan and start().
ScanEntry(e) ==
    /\ start_pc = "scan"
    /\ e \in listing \ scanned
    /\ scanned' = scanned \cup {e}
    /\ IF ~e.is_file
       THEN UNCHANGED <<start_pc, drained>>
       ELSE IF ~handler
            THEN start_pc' = "raised" /\ UNCHANGED drained
            ELSE /\ drained' = IF _is_supported_file(e) THEN Append(drained, e) ELSE drained
                 /\ UNCHANGED start_pc
    /\ UNCHANGED <<ingestVars, startRest, listing, handler>>

\* The loop ends; FileWatcher.start installs the handler and the observer.
WatcherStart ==
    /\ start_pc = "scan"
    /\ scanned = listing
    /\ handler' = TRUE
    /\ watcher_running' = TRUE
    /\ start_pc' = "workers"
    /\ UNCHANGED <<startRest, listing, scanned, drained, content, fsVars, dbVars, proc, queue, is_running, worker_tasks, stopping, watchVars, rv>>

\* Lines 45-50: the worker tasks are created and is_running is set.
WorkersStart ==
    /\ start_pc = "workers"
    /\ proc' = [p \in Procs |-> IF p \in NewTasks THEN FreshProc("waiting") ELSE proc[p]]
    /\ worker_tasks' = worker_tasks \cup NewTasks
    /\ is_running' = TRUE
    /\ start_pc' = "done"
    /\ UNCHANGED <<startRest, listing, handler, scanned, drained, content, fsVars, dbVars, queue, watcher_running, stopping, watchVars, rv>>

NextStart ==
    \/ StartCall
    \/ \E e \in Entries : ScanEntry(e)
    \/ WatcherStart
    \/ WorkersStart

\* A stopped service; the inbox holds any of the entries.
InitStart ==
    /\ IngestInit
    /\ content = Plan("A", "A")
    /\ ParserInit
    /\ DedupeInit
    /\ ValidatorIdle
    /\ MatcherIdle
    /\ MoveInit
    /\ ReviewIdle
    /\ \E entries \in SUBSET Entries : StartInit(entries)

SpecStart == InitStart /\ [][NextStart]_vars

(* ---------------------------------------------------------------------- *)
(* RecipeDeduplicator                                                      *)
(* ---------------------------------------------------------------------- *)
similarity_threshold == 85
time_tolerance_minutes == 15

Titles == {"Pasta", "Easy Pasta!", "Pasta Bake", "Soup"}
Cuisines == {"Italian", "French"}
Times == {30, 42, 50}
Recipes == {Recipe(t, c, m) : t \in Titles, c \in Cuisines, m \in Times}

\* Lower case, stop words and punctuation removed, blanks collapsed.
_normalize_text(text) ==
    CASE text = "Pasta" -> "pasta"
      [] text = "Easy Pasta!" -> "pasta"
      [] text = "Pasta Bake" -> "pasta bake"
      [] text = "Soup" -> "soup"
      [] text = "Italian" -> "italian"
      [] text = "French" -> "french"
      [] OTHER -> ""

\* The string that is hashed; sha1 keeps different strings apart.
_generate_fingerprint(r) == <<_normalize_text(r.title), _normalize_text(r.cuisine), r.total_time_minutes>>

\* fuzz.partial_ratio on the normalized titles, in percent.
partial_ratio(a, b) ==
    IF a = b THEN 100
    ELSE IF {a, b} = {"pasta", "pasta bake"} THEN 100
    ELSE 40

\* create_fingerprint_record: the row of a newly created recipe.
FingerprintData(id, r) == [recipe_id |-> id, title_normalized |-> _normalize_text(r.title), cuisine_normalized |-> _normalize_text(r.cuisine), total_time_minutes |-> r.total_time_minutes, fingerprint_hash |-> _generate_fingerprint(r)]

StoredRows == {fp_rows[i] : i \in 1..Len(fp_rows)}

\* find_duplicate_recipes: the rows with the hash.
DuplicateRows(hash) == {row \in StoredRows : row.fingerprint_hash = hash}

Max(a, b) == IF a >= b THEN a ELSE b

\* Variant: the query has no upper limit on the time.
CandidateRowsFromMin(r, tolerance) == {row \in StoredRows :
    /\ row.cuisine_normalized = _normalize_text(r.cuisine)
    /\ row.total_time_minutes >= Max(0, r.total_time_minutes - tolerance)}

\* find_similar_recipes: same cuisine, time within the tolerance.
CandidateRows(r, tolerance) == {row \in StoredRows :
    /\ row.cuisine_normalized = _normalize_text(r.cuisine)
    /\ row.total_time_minutes >= Max(0, r.total_time_minutes - tolerance)
    /\ row.total_time_minutes <= r.total_time_minutes + tolerance}

\* _find_similar_recipes: the candidates whose title is close enough.
SimilarIds(r) == {row.recipe_id : row \in {c \in CandidateRows(r, time_tolerance_minutes) : partial_ratio(_normalize_text(r.title), c.title_normalized) >= similarity_threshold}}

\* A recipe is created and its fingerprint stored, between two checks.
StoreFingerprint(r) ==
    /\ check.pc \in {"idle", "returned"}
    /\ Len(fp_rows) < MaxStored
    /\ fp_rows' = Append(fp_rows, FingerprintData(Len(fp_rows) + 1, r))
    /\ UNCHANGED <<dedupeRest, check>>

\* check_duplicates is called on a recipe.
CheckDuplicates(r) ==
    /\ check.pc \in {"idle", "returned"}
    /\ check' = [NoCheck EXCEPT !.pc = "exact", !.recipe = r]
    /\ UNCHANGED <<dedupeRest, fp_rows>>

\* _find_exact_duplicate: the recipe id of the first row returned, or None.
ExactLookup ==
    /\ check.pc = "exact"
    /\ \/ \E row \in DuplicateRows(_generate_fingerprint(check.recipe)) :
             check' = [check EXCEPT !.pc = "returned", !.is_duplicate = TRUE, !.exact_duplicate = row.recipe_id]
       \/ /\ DuplicateRows(_generate_fingerprint(check.recipe)) = {}
          /\ check' = [check EXCEPT !.pc = "similar"]
    /\ UNCHANGED <<dedupeRest, fp_rows>>

\* The lookup raises: _find_exact_duplicate logs it and returns None.
ExactLookupRaises ==
    /\ check.pc = "exact"
    /\ check' = [check EXCEPT !.pc = "similar"]
    /\ UNCHANGED <<dedupeRest, fp_rows>>

SimilarLookup ==
    /\ check.pc = "similar"
    /\ check' = [check EXCEPT !.pc = "returned", !.similar_ids = SimilarIds(check.recipe), !.searched = TRUE]
    /\ UNCHANGED <<dedupeRest, fp_rows>>

\* The query raises: _find_similar_recipes logs it and returns [].
SimilarLookupRaises ==
    /\ check.pc = "similar"
    /\ check' = [check EXCEPT !.pc = "returned", !.searched = TRUE]
    /\ UNCHANGED <<dedupeRest, fp_rows>>

NextDedupe ==
    \/ \E r \in Recipes : StoreFingerprint(r)
    \/ \E r \in Recipes : CheckDuplicates(r)
    \/ ExactLookup
    \/ ExactLookupRaises
    \/ SimilarLookup
    \/ SimilarLookupRaises

SpecDedupe == IngestIdle /\ [][NextDedupe]_vars

(* ---------------------------------------------------------------------- *)
(* RecipeValidator                                                         *)
(* ---------------------------------------------------------------------- *)
\* Scores are in percent, confidences in 1/10000.
min_confidence_threshold == 7500
default_overall == 80
full_confidence == 10000

TitleTexts == {Text(0, 0, FALSE, 0), Text(4, 2, FALSE, 0), Text(5, 5, FALSE, 0)}
DescriptionTexts == {Text(5, 5, FALSE, 1), Text(60, 60, TRUE, 1)}
IngredientLists == {<<ParsedIngredient(Text(6, 6, FALSE, 0), Some(1))>>, <<ParsedIngredient(Text(6, 6, FALSE, 0), Some(1)), ParsedIngredient(Text(3, 1, FALSE, 0), Some(2))>>, <<ParsedIngredient(Text(60, 60, FALSE, 0), None)>>}
InstructionLists == {<<Text(40, 40, TRUE, 1)>>, <<Text(40, 40, TRUE, 1), Text(12, 9, FALSE, 0)>>, <<Text(15, 15, FALSE, 0), Text(300, 300, FALSE, 3)>>}
CuisineNames == {"Italian", "Martian"}
CategoryNames == {"Other"}
TagLists == {<<>>, <<"foo">>}
Nutritions == {None, Some(ParsedNutrition(0, 0, 0, 0))}
Difficulties == {0, 3, 6}
ServingsValues == {0, 2}
PrepTimes == {-1, 2, 10}
CookTimes == {0, 500}
\* What the model reported under 'overall': nothing, or a number in percent.
OverallValues == {None, Some(-50), Some(60), Some(150)}

ParsedRecipes == {[GoodRecipe EXCEPT !.title = t, !.description = d, !.cuisine = cu, !.category = ca, !.difficulty = di, !.prep_time_minutes = pt, !.cook_time_minutes = ct, !.servings = sv, !.ingredients = ing, !.instructions = ins, !.tags = tg, !.nutrition = nu, !.overall = ov] :
    t \in TitleTexts, d \in DescriptionTexts, cu \in CuisineNames, ca \in CategoryNames, di \in Difficulties, pt \in PrepTimes, ct \in CookTimes, sv \in ServingsValues, ing \in IngredientLists, ins \in InstructionLists, tg \in TagLists, nu \in Nutritions, ov \in OverallValues}

Indices(seq) == 1..Len(seq)

RECURSIVE Sum(_, _)
Sum(f, S) == IF S = {} THEN 0 ELSE LET x == CHOOSE y \in S : TRUE IN f[x] + Sum(f, S \ {x})

RECURSIVE Concat(_)
Concat(seqs) == IF seqs = <<>> THEN <<>> ELSE Head(seqs) \o Concat(Tail(seqs))

Min(a, b) == IF a <= b THEN a ELSE b

\* "not text or len(text.strip()) < n"
MissingOrShort(text, n) == text.len = 0 \/ text.stripped < n

\* Variant: a title of two characters passes.
TitleTooShortBelowTwo(title) == MissingOrShort(title, 2)

TitleTooShort(title) == MissingOrShort(title, 3)

_check_critical_issues(r) ==
    Concat(<<
        IF TitleTooShort(r.title) THEN <<"title">> ELSE <<>>,
        IF Len(r.ingredients) = 0 THEN <<"no_ingredients">>
        ELSE Concat([i \in Indices(r.ingredients) |-> IF MissingOrShort(r.ingredients[i].name, 2) THEN <<"ingredient_name">> ELSE <<>>]),
        IF Len(r.instructions) = 0 THEN <<"no_instructions">>
        ELSE Concat([i \in Indices(r.instructions) |-> IF MissingOrShort(r.instructions[i], 10) THEN <<"instruction">> ELSE <<>>]),
        IF r.difficulty < 1 \/ r.difficulty > 5 THEN <<"difficulty">> ELSE <<>>,
        IF r.servings < 1 THEN <<"servings">> ELSE <<>>,
        IF r.prep_time_minutes < 0 \/ r.cook_time_minutes < 0 THEN <<"time">> ELSE <<>>
    >>)

_score_description(d) ==
    IF d.len = 0 THEN 0
    ELSE Min(50 + (IF 50 <= d.len /\ d.len <= 500 THEN 20 ELSE 0) + (IF d.word THEN 20 ELSE 0) + (IF d.stops >= 1 THEN 10 ELSE 0), 100)

_score_ingredients(ings) ==
    IF Len(ings) = 0 THEN 0
    ELSE LET with_quantities == Cardinality({i \in Indices(ings) : ings[i].quantity_value # None})
             reasonable_names == Cardinality({i \in Indices(ings) : ings[i].name.len > 2 /\ ings[i].name.len < 50})
         IN  Min(50 + (IF 10 * with_quantities > 7 * Len(ings) THEN 30 ELSE 0) + (IF 10 * reasonable_names > 9 * Len(ings) THEN 20 ELSE 0), 100)

_score_instructions(ins) ==
    IF Len(ins) = 0 THEN 0
    ELSE LET total_length == Sum([i \in Indices(ins) |-> ins[i].len], Indices(ins))
             with_actions == Cardinality({i \in Indices(ins) : ins[i].word})
         IN  Min(50 + (IF 20 * Len(ins) <= total_length /\ total_length <= 200 * Len(ins) THEN 30 ELSE 0) + (IF 2 * with_actions > Len(ins) THEN 20 ELSE 0), 100)

\* Known names score 100, names that share a part with one 80, others 60.
_score_cuisine(c) == IF c = "" THEN 50 ELSE IF c = "Italian" THEN 100 ELSE 60

_score_category(c) == IF c = "" THEN 50 ELSE IF c = "Pasta" THEN 100 ELSE 60

dietary_tags == {"vegan", "vegetarian"}

_score_tags(tags) ==
    IF Len(tags) = 0 THEN 80
    ELSE 60 + (Cardinality({i \in Indices(tags) : tags[i] \in dietary_tags}) * 40) \div Len(tags)

_score_times(prep, cook) ==
    IF prep + cook < 5 \/ prep + cook > 480 THEN 50
    ELSE IF 10 <= prep + cook /\ prep + cook <= 180 THEN 100
    ELSE 70

Abs(x) == IF x < 0 THEN 0 - x ELSE x

_score_nutrition(n) ==
    LET calculated == n.protein_g * 4 + n.carbs_g * 4 + n.fat_g * 9
    IN  Min(50 + (IF n.calories_per_serving # 0 /\ 50 <= n.calories_per_serving /\ n.calories_per_serving <= 2000 THEN 30 ELSE 0)
               + (IF n.protein_g # 0 /\ n.carbs_g # 0 /\ n.fat_g # 0 /\ n.calories_per_serving # 0 /\ 10 * Abs(calculated - n.calories_per_serving) < 3 * n.calories_per_serving THEN 20 ELSE 0), 100)

\* The per-check scores in the order they are appended.
ScoreFactors(r) ==
    <<_score_description(r.description), _score_ingredients(r.ingredients), _score_instructions(r.instructions), _score_cuisine(r.cuisine), _score_category(r.category), _score_tags(r.tags), _score_times(r.prep_time_minutes, r.cook_time_minutes)>>
    \o (IF r.nutrition # None THEN <<_score_nutrition(r.nutrition[1])>> ELSE <<>>)

\* The issue each low score adds, in the same order.
QualityIssueList(r) ==
    Concat(<<
        IF _score_description(r.description) < 70 THEN <<"description">> ELSE <<>>,
        IF _score_ingredients(r.ingredients) < 70 THEN <<"ingredients">> ELSE <<>>,
        IF _score_instructions(r.instructions) < 70 THEN <<"instructions">> ELSE <<>>,
        IF _score_cuisine(r.cuisine) < 80 THEN <<"cuisine">> ELSE <<>>,
        IF _score_category(r.category) < 80 THEN <<"category">> ELSE <<>>,
        IF _score_tags(r.tags) < 80 THEN <<"tags">> ELSE <<>>,
        IF _score_times(r.prep_time_minutes, r.cook_time_minutes) < 70 THEN <<"times">> ELSE <<>>,
        IF r.nutrition # None /\ _score_nutrition(r.nutrition[1]) < 70 THEN <<"nutrition">> ELSE <<>>
    >>)

\* confidence_scores.get('overall', 0.8)
base_confidence(r) == IF r.overall = None THEN default_overall ELSE r.overall[1]

\* min(base_confidence * quality_score, 1.0), quality_score being the mean
\* of the factors: percent times percent, in 1/10000, rounded down.
final_confidence(r) ==
    LET factors == ScoreFactors(r)
    IN  Min((base_confidence(r) * Sum(factors, Indices(factors))) \div Len(factors), full_confidence)

validate_recipe(r) ==
    IF _check_critical_issues(r) # <<>>
    THEN [returned |-> TRUE, is_valid |-> FALSE, issues |-> _check_critical_issues(r), confidence |-> 0]
    ELSE [returned |-> TRUE, is_valid |-> ~(final_confidence(r) < min_confidence_threshold \/ Len(QualityIssueList(r)) > 3), issues |-> QualityIssueList(r), confidence |-> final_confidence(r)]

\* validate_recipe is called on the recipe.
Validate ==
    /\ ~verdict.returned
    /\ verdict' = validate_recipe(parsed_recipe)
    /\ UNCHANGED <<validatorRest, parsed_recipe>>

NextValidator == Validate

\* Any of the recipes is handed to the validator.
InitValidator ==
    /\ IngestInit
    /\ content = Plan("A", "A")
    /\ ParserInit
    /\ StartInit({})
    /\ DedupeInit
    /\ MatcherIdle
    /\ MoveInit
    /\ ReviewIdle
    /\ ValidatorInit
    /\ parsed_recipe \in ParsedRecipes

SpecValidator == InitValidator /\ [][NextValidator]_vars

(* ---------------------------------------------------------------------- *)
(* IngredientMatcher                                                       *)
(* ---------------------------------------------------------------------- *)
BaseCatalogs == {<<>>, <<BaseIngredient(3, "Onion Powder")>>, <<BaseIngredient(3, "Onion Powder"), BaseIngredient(1, "Onion"), BaseIngredient(2, "Basil")>>}
UnitCatalogs == {<<>>, <<Unit(1, "g", "gram"), Unit(2, "piece", "piece")>>}

\* _clean_ingredient_name: lower case, preparation words removed, the
\* normalizations applied.
_clean_ingredient_name(name) ==
    CASE name = "Onions" -> "onion"
      [] name = "Red Onion" -> "red onion"
      [] name = "fresh basil" -> "basil"
      [] name = "salt" -> "salt"
      [] OTHER -> ""

\* str.lower() on the catalog names.
LowerName(name) ==
    CASE name = "Onion" -> "onion"
      [] name = "Onion Powder" -> "onion powder"
      [] name = "Basil" -> "basil"
      [] OTHER -> name

\* "a in b" on the names that occur.
Contains(b, a) ==
    \/ a = b
    \/ a = "onion" /\ b \in {"red onion", "onion powder"}

\* The words of a name longer than two characters, in order.
LongWords(name) ==
    CASE name = "red onion" -> <<"red", "onion">>
      [] name = "onion powder" -> <<"onion", "powder">>
      [] name = "" -> <<>>
      [] OTHER -> <<name>>

\* The first row of the cache the predicate holds for, as <<row>>, or <<>>.
FirstRow(cache, Test(_)) ==
    IF \E i \in 1..Len(cache) : Test(cache[i])
    THEN <<cache[CHOOSE i \in 1..Len(cache) : Test(cache[i]) /\ \A j \in 1..(i - 1) : ~Test(cache[j])]>>
    ELSE <<>>

\* _find_matching_base_ingredient: exact name, then a name that holds or
\* is held by the clean name, then a word of the clean name.
_find_matching_base_ingredient(clean_name, cache) ==
    LET Exact(row) == LowerName(row.name_en) = clean_name
        Partial(row) == Contains(clean_name, LowerName(row.name_en)) \/ Contains(LowerName(row.name_en), clean_name)
        words == LongWords(clean_name)
        Found(i) == \E j \in 1..Len(cache) : Contains(LowerName(cache[j].name_en), words[i])
        ByWord(row) == \E i \in 1..Len(words) : Found(i) /\ (\A k \in 1..(i - 1) : ~Found(k)) /\ Contains(LowerName(row.name_en), words[i])
    IN  IF clean_name = "" \/ cache = <<>> THEN <<>>
        ELSE IF FirstRow(cache, Exact) # <<>> THEN FirstRow(cache, Exact)
        ELSE IF FirstRow(cache, Partial) # <<>> THEN FirstRow(cache, Partial)
        ELSE FirstRow(cache, ByWord)

unit_normalizations(unit) == IF unit = "pieces" THEN "piece" ELSE unit

\* _find_unit_id: the id of the unit of that abbreviation or name, or 0.
_find_unit_id(unit_name, cache) ==
    LET Named(row) == row.abbreviation_en = unit_normalizations(unit_name) \/ row.name_en = unit_normalizations(unit_name)
    IN  IF unit_name = "" \/ cache = <<>> \/ unit_normalizations(unit_name) = "to taste" \/ FirstRow(cache, Named) = <<>> THEN 0
        ELSE FirstRow(cache, Named)[1].id

\* _extract_preparation_notes.
_extract_preparation_notes(ingredient) ==
    CASE ingredient.unit = "to taste" -> "to taste"
      [] ingredient.name = "fresh basil" -> "fresh"
      [] OTHER -> ""

\* _process_single_ingredient: the recipe_ingredients record; 0 and "" stand
\* for the keys left out.
_process_single_ingredient(ingredient, sort_order, base_cache, unit_cache) ==
    LET base_ingredient == _find_matching_base_ingredient(_clean_ingredient_name(ingredient.name), base_cache)
    IN  [display_name |-> ingredient.name, sort_order |-> sort_order, amount |-> ingredient.quantity_value,
         unit_id |-> _find_unit_id(ingredient.unit, unit_cache),
         preparation_notes |-> _extract_preparation_notes(ingredient),
         base_ingredient_id |-> IF base_ingredient = <<>> THEN 0 ELSE base_ingredient[1].id]

\* "if self.base_ingredients_cache is None"
CacheMissing(cache) == cache = None

\* "except Exception": both caches become [].
LoadRaised ==
    /\ base_ingredients_cache' = Some(<<>>)
    /\ units_cache' = Some(<<>>)
    /\ matching' = [matching EXCEPT !.pc = "process"]
    /\ UNCHANGED loads

\* process_ingredients(l) is called.  No await in the call suspends
\* (execute_query runs its query inline), so a call runs to its end before
\* the event loop starts another.
ProcessIngredients(l) ==
    /\ matching.pc = "idle"
    /\ processed[l].calls < MaxCalls
    /\ matching' = [pc |-> "load_base", ingredients |-> l]
    /\ UNCHANGED <<matcherRest, base_ingredients_cache, units_cache, base_ingredients, units, loads, processed>>

\* _load_caches, the base ingredients: queried if the cache is None.
LoadBaseIngredients(ok) ==
    /\ matching.pc = "load_base"
    /\ IF ~CacheMissing(base_ingredients_cache)
       THEN /\ ok
            /\ matching' = [matching EXCEPT !.pc = "load_units"]
            /\ UNCHANGED <<base_ingredients_cache, units_cache, loads>>
       ELSE IF ok
       THEN /\ base_ingredients_cache' = Some(base_ingredients)
            /\ loads' = [loads EXCEPT !.base_ingredients = @ + 1]
            /\ matching' = [matching EXCEPT !.pc = "load_units"]
            /\ UNCHANGED units_cache
       ELSE LoadRaised
    /\ UNCHANGED <<matcherRest, base_ingredients, units, processed>>

\* _load_caches, the units: queried if the cache is None.
LoadUnits(ok) ==
    /\ matching.pc = "load_units"
    /\ IF ~CacheMissing(units_cache)
       THEN /\ ok
            /\ matching' = [matching EXCEPT !.pc = "process"]
            /\ UNCHANGED <<base_ingredients_cache, units_cache, loads>>
       ELSE IF ok
       THEN /\ units_cache' = Some(units)
            /\ loads' = [loads EXCEPT !.units = @ + 1]
            /\ matching' = [matching EXCEPT !.pc = "process"]
            /\ UNCHANGED base_ingredients_cache
       ELSE LoadRaised
    /\ UNCHANGED <<matcherRest, base_ingredients, units, processed>>

\* The loop over the ingredients and the return.
ProcessAll ==
    LET l == matching.ingredients
        output == [i \in 1..Len(l) |-> _process_single_ingredient(l[i], i, base_ingredients_cache[1], units_cache[1])]
    IN  /\ matching.pc = "process"
        /\ processed' = [processed EXCEPT ![l] = [calls |-> @.calls + 1, first |-> IF @.calls = 0 THEN Some(output) ELSE @.first, latest |-> Some(output)]]
        /\ matching' = NoMatching
        /\ UNCHANGED <<matcherRest, base_ingredients_cache, units_cache, base_ingredients, units, loads>>

\* The catalog tables are edited by other parts of the application.
CatalogChanges(b, u) ==
    /\ <<b, u>> # <<base_ingredients, units>>
    /\ base_ingredients' = b
    /\ units' = u
    /\ UNCHANGED <<matcherRest, base_ingredients_cache, units_cache, loads, processed, matching>>

NextMatcher ==
    \/ \E l \in IngredientInputs : ProcessIngredients(l)
    \/ \E ok \in BOOLEAN : LoadBaseIngredients(ok)
    \/ \E ok \in BOOLEAN : LoadUnits(ok)
    \/ ProcessAll
    \/ \E b \in BaseCatalogs, u \in UnitCatalogs : CatalogChanges(b, u)

InitMatcher ==
    /\ IngestInit
    /\ content = Plan("A", "A")
    /\ ParserInit
    /\ StartInit({})
    /\ DedupeInit
    /\ ValidatorIdle
    /\ MoveInit
    /\ ReviewIdle
    /\ MatcherInit
    /\ base_ingredients \in BaseCatalogs
    /\ units \in UnitCatalogs

SpecMatcher == InitMatcher /\ [][NextMatcher]_vars

(* ---------------------------------------------------------------------- *)
(* DirectoryManager.move_file                                              *)
(* ---------------------------------------------------------------------- *)
\* A file name is its stem's counters in order: <<>> is a.txt, <<1>> is
\* a_1.txt, <<1, 2>> is a_1_2.txt.  The suffix is .txt throughout.
SourceNames == {<<>>, <<1>>}

\* What move_file is given as destination.
Destinations == Dirs \cup {"inbox", "archive"}

File(dir, name, id) == [dir |-> dir, name |-> name, id |-> id]

\* A file is at the path.
IsFile(dir, name) == \E f \in tree : f.dir = dir /\ f.name = name

\* Variant: no destination path is ever found taken.
PathNeverExists(dir, name) == FALSE

\* dest_path.exists()
PathExists(dir, name) == IsFile(dir, name)

\* f"{stem}_{counter}{suffix}"
Uniquified(name, counter) == Append(name, counter)

\* The while loop: counter = 1, 2, ... until the path is free.
RECURSIVE UniqueFrom(_, _, _)
UniqueFrom(dest_dir, name, counter) ==
    IF PathExists(dest_dir, Uniquified(name, counter))
    THEN UniqueFrom(dest_dir, name, counter + 1)
    ELSE Uniquified(name, counter)

\* The path the file is renamed to.
dest_path(dest_dir, name) ==
    IF PathExists(dest_dir, name) THEN UniqueFrom(dest_dir, name, 1) ELSE name

\* Path.rename: the file takes the target path, and a file that was there
\* is replaced.
Renamed(f, dir, name) ==
    {g \in tree : g # f /\ ~(g.dir = dir /\ g.name = name)} \cup {File(dir, name, f.id)}

\* A file is written into the inbox.
CreateFile(name) ==
    /\ created < MaxCreated
    /\ ~IsFile("inbox", name)
    /\ tree' = tree \cup {File("inbox", name, created + 1)}
    /\ created' = created + 1
    /\ UNCHANGED <<moveRest, moved>>

\* move_file(source_path, destination) with a source path in the inbox,
\* as process_file and the dead-letter step call it.
MoveFile(name, destination) ==
    /\ IF destination \notin Dirs
       THEN /\ moved' = [source |-> <<"inbox", name>>, destination |-> destination, returned |-> <<>>, raised |-> "ValueError"]
            /\ UNCHANGED tree
       ELSE IF ~IsFile("inbox", name)
       THEN /\ moved' = [source |-> <<"inbox", name>>, destination |-> destination, returned |-> <<>>, raised |-> "FileNotFoundError"]
            /\ UNCHANGED tree
       ELSE LET f == CHOOSE f \in tree : f.dir = "inbox" /\ f.name = name
            IN  /\ tree' = Renamed(f, destination, dest_path(destination, name))
                /\ moved' = [source |-> <<"inbox", name>>, destination |-> destination, returned |-> <<destination, dest_path(destination, name)>>, raised |-> ""]
    /\ moved' # moved
    /\ UNCHANGED <<moveRest, created>>

NextMove ==
    \/ \E name \in SourceNames : CreateFile(name)
    \/ \E name \in SourceNames, destination \in Destinations : MoveFile(name, destination)

SpecMove == IngestIdle /\ [][NextMove]_vars

(* ---------------------------------------------------------------------- *)
(* review_job, requests side by side                                       *)
(* ---------------------------------------------------------------------- *)
\* Lines 174-201: get_ingestion_job, then the checks on the row read.
ReviewCallRead(k, d) ==
    /\ review_calls[k].pc = "idle"
    /\ review_calls' = [review_calls EXCEPT ![k] = IF ReviewAllowed(review_row) /\ (d = "APPROVED" => review_row.meta.parsed # "none") THEN [pc |-> "update", job |-> 1, decision |-> d] ELSE [IdleReview EXCEPT !.pc = "refused"]]
    /\ UNCHANGED <<reviewRest, review_row>>

\* update_ingestion_job: the update of the decision, on the row of that id.
ReviewCallWrite(k) ==
    /\ review_calls[k].pc = "update"
    /\ review_row' = Merge(review_row, ReviewUpdate(review_calls[k].decision))
    /\ review_calls' = [review_calls EXCEPT ![k] = [IdleReview EXCEPT !.pc = "updated", !.decision = review_calls[k].decision]]
    /\ UNCHANGED reviewRest

\* The response is sent: the 400 of a refusal, or the decision.
ReviewCallResponds(k) ==
    /\ review_calls[k].pc \in {"refused", "updated"}
    /\ review_calls' = [review_calls EXCEPT ![k] = IdleReview]
    /\ UNCHANGED <<reviewRest, review_row>>

NextReview ==
    \/ \E k \in ReviewClients, d \in Decisions : ReviewCallRead(k, d)
    \/ \E k \in ReviewClients : ReviewCallWrite(k)
    \/ \E k \in ReviewClients : ReviewCallResponds(k)

\* The job is in any status, with or without a parsed recipe in meta and
\* with any stored retry count.
InitReview ==
    /\ IngestInit
    /\ content = Plan("A", "A")
    /\ ParserInit
    /\ StartInit({})
    /\ DedupeInit
    /\ ValidatorIdle
    /\ MatcherIdle
    /\ MoveInit
    /\ ReviewInit
    /\ \E st \in Statuses, parsed \in {"none", "B"}, r \in 0..max_retries :
          review_row = [NewJob("a.txt") EXCEPT !.status = st, !.retries = r, !.meta = [NoMeta EXCEPT !.parsed = parsed]]

SpecReview == InitReview /\ [][NextReview]_vars

(* ---------------------------------------------------------------------- *)
(* Properties                                                              *)
(* ---------------------------------------------------------------------- *)
JobIds == 1..Len(jobs)

\* The pcs of a process_file call that has not yet returned.
ProcessPcs == {"create_job", "mark_processing", "parse", "dedupe_exact", "dedupe_similar", "dup_update", "review_update", "create_recipe", "create_fp", "complete_update", "err_get", "err_update"}

\* The steps the properties speak of, told by the pcs before and after.
Leaves(p, pc) == proc[p].pc = pc /\ proc'[p].pc \in (ProcessPcs \cup {"returned"}) \ {pc}
HandlerWrites(p) == proc[p].pc = "err_update" /\ proc'[p].pc = "returned"
ReprocessResets(j) == \E a \in Apis : proc[a].pc = "rp_update" /\ proc[a].job = j /\ proc'[a].pc # "rp_update"
ReviewWrites(k, d) == rv[k].pc = "update" /\ rv[k].decision = d /\ rv'[k].pc = "updated"
RevisionResets(j) == \E k \in Reviewers : ReviewWrites(k, "NEEDS_REVISION") /\ rv[k].job = j
MovedTo(path, d) == inbox[path] /\ ~inbox'[path] /\ \E k \in 0..MaxJobs : <<path, k>> \in dirs'[d] \ dirs[d]

C2_FailureHandling ==
    [][\A p \in Procs : HandlerWrites(p) =>
          LET j == proc[p].job
              r == jobs[j].retries
          IN  /\ r < 3 => /\ jobs'[j].status = "PENDING"
                          /\ jobs'[j].retries = r + 1
                          /\ jobs'[j].error_message # "none"
                          /\ inbox' = inbox /\ dirs' = dirs
              /\ r >= 3 => /\ jobs'[j].status = "DLQ"
                           /\ jobs'[j].retries = r
                           /\ MovedTo(proc[p].path, "dlq")
              /\ proc'[p].res.returned
              /\ ~proc'[p].res.success
              /\ proc'[p].res.job_id = j
              /\ proc'[p].res.error_message # "none"]_vars

\* process_file has returned a failure for a job it sent to DLQ, the file
\* now in the dlq directory.
C2_Witness == \E p \in Procs : /\ proc[p].pc = "returned" /\ ~proc[p].res.success /\ proc[p].res.job_id # 0
                               /\ jobs[proc[p].res.job_id].status = "DLQ"
                               /\ \E k \in 0..MaxJobs : <<jobs[proc[p].res.job_id].source_path, k>> \in dirs["dlq"]

\* C3: no job has both recipe_id and duplicate_of_recipe_id set; recipe_id
\* is set only while the status is COMPLETED and duplicate_of_recipe_id only
\* while it is COMPLETED_DUPLICATE.
C3_IdsMatchStatus ==
    \A j \in JobIds :
        /\ ~(jobs[j].recipe_id # 0 /\ jobs[j].duplicate_of_recipe_id # 0)
        /\ jobs[j].recipe_id # 0 => jobs[j].status = "COMPLETED"
        /\ jobs[j].duplicate_of_recipe_id # 0 => jobs[j].status = "COMPLETED_DUPLICATE"

\* C4: when an exact duplicate is found the job becomes COMPLETED_DUPLICATE
\* with duplicate_of_recipe_id set, the file is moved to the processed
\* directory and no recipe or fingerprint is created; this is so whatever
\* the validator says of the recipe.
C4_ExactDuplicate ==
    [][\A p \in Procs :
          /\ Leaves(p, "dedupe_exact") /\ proc'[p].dup # 0 => proc'[p].pc = "dup_update"
          /\ Leaves(p, "dup_update") =>
                /\ jobs'[proc[p].job].status = "COMPLETED_DUPLICATE"
                /\ jobs'[proc[p].job].duplicate_of_recipe_id = proc[p].dup
                /\ proc[p].dup # 0
                /\ MovedTo(proc[p].path, "processed")
                /\ recipes' = recipes /\ fps' = fps
                /\ proc'[p].pc = "returned" /\ proc'[p].res.success /\ proc'[p].res.is_duplicate]_vars

\* C5: with no exact duplicate, a recipe that is invalid, or has confidence
\* below 0.75, or has a similar recipe, or has more than 3 issues makes the
\* job NEEDS_REVIEW with the issues, the similar recipe ids and the parsed
\* recipe in meta; no recipe is created and the file is not moved.  Any
\* other recipe goes on to be created.
C5_ReviewRouting ==
    [][\A p \in Procs :
          LET c == content[proc[p].path]
              j == proc[p].job
          IN  /\ Leaves(p, "dedupe_similar") =>
                    /\ proc'[p].pc \in {"review_update", "create_recipe"}
                    /\ proc'[p].pc = "review_update" <=> (~IsValid(c) \/ Confidence(c) < 75 \/ proc'[p].sim # {} \/ QualityIssues(c) > 3)
              /\ Leaves(p, "review_update") =>
                    /\ jobs'[j].status = "NEEDS_REVIEW"
                    /\ jobs'[j].meta = [issues |-> QualityIssues(c), similar |-> proc[p].sim, parsed |-> c]
                    /\ jobs'[j].recipe_id = 0
                    /\ recipes' = recipes /\ fps' = fps
                    /\ inbox' = inbox /\ dirs' = dirs
                    /\ proc'[p].pc = "returned" /\ proc'[p].res.success /\ proc'[p].res.needs_review]_vars

\* A recipe of confidence 0.60 with no critical issue and nothing like it
\* stored is in NEEDS_REVIEW, its file still in the inbox.
C5_Witness == \E j \in JobIds : /\ jobs[j].status = "NEEDS_REVIEW" /\ jobs[j].confidence_score = 60
                                /\ jobs[j].meta = [issues |-> 0, similar |-> {}, parsed |-> "B"]
                                /\ inbox[jobs[j].source_path] /\ recipes = <<>>

\* C6: whenever process_file sets a job to COMPLETED the recipe has been
\* persisted and its fingerprint stored, and the file is moved only after
\* the job is COMPLETED.
C6_CompletedHasRecipeAndFingerprint ==
    [][\A p \in Procs : Leaves(p, "complete_update") =>
          LET j == proc[p].job
              rid == jobs'[j].recipe_id
          IN  /\ jobs'[j].status = "COMPLETED"
              /\ rid \in 1..Len(recipes)
              /\ \E f \in fps : f.recipe_id = rid
              /\ inbox'[proc[p].path] # inbox[proc[p].path] => jobs'[j].status = "COMPLETED"]_vars

\* C7: an APPROVED review of a NEEDS_REVIEW job that holds a parsed recipe
\* persists the recipe and its fingerprint and sets the job COMPLETED with
\* recipe_id set; without a parsed recipe the review is refused and the job
\* unchanged.
C7_ApprovalPersistsRecipe ==
    [][\A k \in Reviewers :
          /\ ReviewWrites(k, "APPROVED") =>
                LET j == rv[k].job
                IN  /\ jobs[j].status = "NEEDS_REVIEW" /\ jobs[j].meta.parsed # "none"
                    /\ jobs'[j].status = "COMPLETED"
                    /\ jobs'[j].recipe_id \in 1..Len(recipes')
                    /\ Len(recipes') = Len(recipes) + 1
                    /\ \E f \in fps' : f.recipe_id = jobs'[j].recipe_id
          /\ rv[k].pc = "idle" /\ rv'[k].pc = "refused" => jobs' = jobs]_vars

\* C8: a REJECTED review sets the job FAILED and records the reviewer's
\* notes; a NEEDS_REVISION review sets it PENDING with retries reset to 0;
\* neither creates a recipe and recipe_id stays unset.
C8_RejectAndRevision ==
    [][\A k \in Reviewers :
          LET j == rv[k].job
          IN  /\ ReviewWrites(k, "REJECTED") => jobs'[j].status = "FAILED" /\ jobs'[j].reviewer_notes
              /\ ReviewWrites(k, "NEEDS_REVISION") => jobs'[j].status = "PENDING" /\ jobs'[j].retries = 0
              /\ ReviewWrites(k, "REJECTED") \/ ReviewWrites(k, "NEEDS_REVISION") =>
                    /\ jobs[j].status = "NEEDS_REVIEW"
                    /\ recipes' = recipes /\ fps' = fps
                    /\ jobs'[j].recipe_id = 0]_vars

\* A NEEDS_REVISION review has sent a job back: PENDING, retries 0, the
\* notes recorded, the parsed recipe still in meta and no recipe_id.
C8_Witness == \E k \in Reviewers, j \in JobIds :
                  /\ rv[k].pc = "updated"
                  /\ jobs[j].status = "PENDING" /\ jobs[j].reviewer_notes /\ jobs[j].retries = 0
                  /\ jobs[j].meta.parsed # "none" /\ jobs[j].recipe_id = 0

\* C9: reprocess_job is accepted only for a job in FAILED or DLQ whose
\* source_path still exists; it resets the job to PENDING with retries 0
\* and the error message cleared before the file is processed again;
\* otherwise the request is refused and the job unchanged.
C9_ReprocessGuard ==
    [][\A a \in Apis :
          LET j == proc'[a].job
          IN  /\ proc[a].pc = "idle" /\ proc'[a].pc = "rp_update" =>
                    jobs[j].status \in {"FAILED", "DLQ"} /\ inbox[jobs[j].source_path] /\ jobs' = jobs
              /\ proc[a].pc = "idle" /\ proc'[a].pc = "refused" =>
                    ~(jobs[j].status \in {"FAILED", "DLQ"} /\ inbox[jobs[j].source_path]) /\ jobs' = jobs
              /\ proc[a].pc = "refused" /\ proc'[a].pc # "refused" => jobs' = jobs
              /\ proc[a].pc = "rp_update" /\ proc'[a].pc # "rp_update" =>
                    /\ jobs'[proc[a].job].status = "PENDING"
                    /\ jobs'[proc[a].job].retries = 0
                    /\ jobs'[proc[a].job].error_message = "none"
                    /\ Len(jobs') = Len(jobs)
                    /\ proc'[a].call = "reprocess"
                    /\ proc'[a].pc \in {"create_job", "returned"}]_vars

\* A job in DLQ whose file is back at its source path has been accepted
\* for reprocessing.
C9_Witness == \E a \in Apis : /\ proc[a].pc = "rp_update"
                              /\ jobs[proc[a].job].status = "DLQ"
                              /\ jobs[proc[a].job].retries = 3
                              /\ inbox[jobs[proc[a].job].source_path]

\* Worker tasks that have not ended.
LiveWorkers == {w \in Workers : proc[w].pc # "unused"}

\* C10: while the service is running (started, and no stop() under way) the
\* live worker tasks number num_workers and while it is stopped there are
\* none; start() while running and stop() while stopped change nothing; the
\* process_file calls in flight in the workers are at most one per worker.
C10_WorkerPool ==
    /\ [](/\ is_running /\ ~stopping => Cardinality(LiveWorkers) = 2 /\ \A w \in LiveWorkers : proc[w].pc # "cancelled"
          /\ ~is_running => LiveWorkers = {} /\ ~stopping
          /\ worker_tasks = LiveWorkers
          /\ Cardinality({w \in Workers : proc[w].pc \in ProcessPcs}) <= 2)
    /\ [][/\ is_running /\ is_running' => worker_tasks' = worker_tasks
          /\ ~is_running /\ ~is_running' => worker_tasks' = worker_tasks /\ watcher_running' = watcher_running]_vars

\* The service is running, both workers inside process_file.
C10_Witness == is_running /\ ~stopping /\ Cardinality({w \in Workers : proc[w].pc \in ProcessPcs}) = 2

\* parse_recipe calls inside the "async with" section.
InAiSection == {c \in ParseCallers : parse_calls[c].pc \in {"request", "backoff"}}

\* C11: at most 4 parse_recipe calls are inside the AI call section at any
\* moment, however many callers there are; the permit is released when the
\* call succeeds, fails after its retries, or is cancelled, so the free
\* permits and the calls in the section always add up to 4.
C11_ParsePermits ==
    /\ [](/\ Cardinality(InAiSection) <= 4
          /\ semaphore >= 0
          /\ semaphore + Cardinality(InAiSection) = 4)
    /\ [][\A c \in ParseCallers :
            parse_calls[c].pc \in {"request", "backoff"} /\ parse_calls'[c].pc = "idle"
                => semaphore' = semaphore + 1]_vars

\* Four calls are in the section, no permit is free and a fifth call waits
\* for one.
C11_Witness ==
    /\ Cardinality(InAiSection) = 4
    /\ \E c \in ParseCallers : parse_calls[c].pc = "acquire"
    /\ semaphore = 0

\* The queue holds the path; a worker is inside process_file on the path.
InQueue(path) == \E i \in 1..Len(queue) : queue[i] = path
BeingProcessed(path) == \E w \in Workers : proc[w].pc \in ProcessPcs /\ proc[w].path = path

Owned(j) ==
    \/ \E p \in Procs : proc[p].pc \in (ProcessPcs \cup {"rp_update"}) /\ proc[p].job = j
    \/ \E k \in Reviewers : rv[k].pc = "update" /\ rv[k].job = j

\* The steps of stop(): the cancellation, and its return after the gather.
StopCancels == ~stopping /\ stopping'
StopReturns == stopping /\ ~stopping'

\* The jobs whose process_file call a cancellation interrupts.
Interrupted == {proc[w].job : w \in {v \in worker_tasks : proc[v].pc \in ProcessPcs /\ proc[v].job > 0}}

StopStopsAll ==
    StopReturns =>
        /\ worker_tasks' = {}
        /\ ~is_running'
        /\ ~watcher_running'
        /\ \A w \in Workers : proc'[w].pc = "unused"
        /\ jobs' = jobs

SupportedFiles == {e \in listing : e.is_file /\ _is_supported_file(e)}
TimesDrained(e) == Cardinality({i \in 1..Len(drained) : drained[i] = e})

\* C14: start() on a stopped service ends with the watcher and the workers
\* started and is_running true, every supported file of the inbox enqueued
\* exactly once by the scan and no other entry enqueued.
C14_StartDrainsInbox ==
    start_pc \in {"done", "raised"} =>
        /\ start_pc = "done"
        /\ is_running
        /\ watcher_running
        /\ Cardinality(worker_tasks) = num_workers
        /\ \A e \in Entries : TimesDrained(e) = IF e \in SupportedFiles THEN 1 ELSE 0

\* check_duplicates returns.
CheckReturns == check.pc \in {"exact", "similar"} /\ check'.pc = "returned"

\* C15: a check on a recipe whose hash is stored returns is_duplicate=True
\* with the id of a stored row of that hash and no similar ids, the fuzzy
\* search not run; is_duplicate is true only with such an id.
C15_StoredHashIsDuplicate ==
    [][CheckReturns =>
        /\ DuplicateRows(_generate_fingerprint(check.recipe)) # {} =>
                /\ check'.is_duplicate
                /\ check'.similar_ids = {}
                /\ ~check'.searched
        /\ check'.is_duplicate =>
                check'.exact_duplicate \in {row.recipe_id : row \in DuplicateRows(_generate_fingerprint(check.recipe))}]_vars

\* The issues the critical checks and the quality checks report.
CriticalTags == {"title", "no_ingredients", "ingredient_name", "no_instructions", "instruction", "difficulty", "servings", "time"}
IssueSet(v) == {v.issues[i] : i \in 1..Len(v.issues)}

\* C16: a recipe with a title missing or shorter than 3 characters, an
\* ingredient name shorter than 2, an instruction shorter than 10, a
\* difficulty outside 1..5, servings below 1 or a negative time is returned
\* with is_valid=False, confidence 0 and critical issues only.
C16_CriticalInvalidates ==
    verdict.returned /\
      (\/ parsed_recipe.title.len = 0
       \/ parsed_recipe.title.stripped < 3
       \/ \E i \in 1..Len(parsed_recipe.ingredients) : parsed_recipe.ingredients[i].name.stripped < 2
       \/ \E i \in 1..Len(parsed_recipe.instructions) : parsed_recipe.instructions[i].stripped < 10
       \/ parsed_recipe.difficulty \notin 1..5
       \/ parsed_recipe.servings < 1
       \/ parsed_recipe.prep_time_minutes < 0
       \/ parsed_recipe.cook_time_minutes < 0)
    => /\ ~verdict.is_valid
       /\ verdict.confidence = 0
       /\ verdict.issues # <<>>
       /\ IssueSet(verdict) \subseteq CriticalTags

\* A recipe whose only fault is a two-character title (its quality scores
\* would give a confidence above zero) has been refused.
C16_Witness ==
    /\ verdict.returned
    /\ parsed_recipe.title.stripped = 2
    /\ parsed_recipe = [GoodRecipe EXCEPT !.title = parsed_recipe.title]
    /\ verdict.issues = <<"title">>
    /\ final_confidence(parsed_recipe) > 0

\* C17: the confidence validate_recipe returns is in [0,1], whatever the
\* value under 'overall'.
C17_ConfidenceInUnitInterval ==
    verdict.returned => 0 <= verdict.confidence /\ verdict.confidence <= full_confidence

\* Every call of process_ingredients with a list returned what the first
\* call with that list returned.
SameListSameOutput == \A l \in IngredientInputs : processed[l].latest = processed[l].first

\* Each catalog has been loaded at most once.
LoadedOnce == loads.base_ingredients <= 1 /\ loads.units <= 1

\* A cache that has been set keeps its content.
CachesKept ==
    /\ base_ingredients_cache # None => base_ingredients_cache' = base_ingredients_cache
    /\ units_cache # None => units_cache' = units_cache

\* C18: two calls of process_ingredients with the same list return the
\* same output whatever calls run around them and whether or not a load
\* fails: each catalog is loaded at most once and a cache that has been
\* set never changes its content.
C18_SameListSameOutput == [](SameListSameOutput /\ LoadedOnce) /\ [][CachesKept]_vars

\* The file at a path, as a set of at most one file.
FileAt(files, dir, name) == {f \in files : f.dir = dir /\ f.name = name}

\* C19: move_file never replaces a file: every file that is not the
\* source stays where it was; the returned path is the source's name in the
\* destination directory if that is free and else the first free of
\* stem_1, stem_2, ...; the file is at the returned path afterwards and the
\* source path is empty.  A destination other than processed, failed and
\* dlq raises ValueError and leaves every file in place.
C19_MoveKeepsFiles ==
    [][\A name \in SourceNames, destination \in Destinations :
          MoveFile(name, destination) /\ IsFile("inbox", name) =>
              IF destination \in Dirs
              THEN LET source == FileAt(tree, "inbox", name)
                       stem == moved'.returned[2]
                   IN  /\ moved'.raised = ""
                       /\ tree \ source \subseteq tree'
                       /\ moved'.returned[1] = destination
                       /\ FileAt(tree, destination, stem) = {}
                       /\ \/ stem = name
                          \/ /\ FileAt(tree, destination, name) # {}
                             /\ \E k \in 1..MaxCreated :
                                   /\ stem = Append(name, k)
                                   /\ \A i \in 1..(k - 1) : FileAt(tree, destination, Append(name, i)) # {}
                       /\ {f.id : f \in FileAt(tree', destination, stem)} = {f.id : f \in source}
                       /\ FileAt(tree', "inbox", name) = {}
              ELSE /\ moved'.raised = "ValueError"
                   /\ tree' = tree]_vars

\* A move has landed on stem_2 because the name and stem_1 were taken.
C19_Witness ==
    /\ moved.raised = ""
    /\ moved.source = <<"inbox", <<>>>>
    /\ moved.returned = <<"processed", <<2>>>>
    /\ Cardinality({f \in tree : f.dir = "processed"}) = 3

\* C20, as stated: a step increases the retry count of a job only if it
\* takes the job from FAILED to PENDING.
C20_IncrementOnlyFailedToPending ==
    [][\A j \in JobIds :
          jobs'[j].retries > jobs[j].retries => jobs[j].status = "FAILED" /\ jobs'[j].status = "PENDING"]_vars

\* C20, amended: a step increases the retry count of a job only if it is
\* the retry write of _handle_processing_error for that job, which makes
\* the job PENDING with one more than the count the handler read; the job
\* is never FAILED before that write, and the step that takes a FAILED job
\* to PENDING, reprocess_job, sets the count to 0.
C20_IncrementOnlyByHandler ==
    [][\A j \in JobIds :
          /\ jobs'[j].retries > jobs[j].retries =>
                /\ \E p \in Procs : HandlerWrites(p) /\ proc[p].job = j /\ jobs'[j].retries = proc[p].r + 1
                /\ jobs'[j].status = "PENDING"
                /\ jobs[j].status # "FAILED"
          /\ jobs[j].status = "FAILED" /\ jobs'[j].status = "PENDING" => ReprocessResets(j) /\ jobs'[j].retries = 0]_vars

\* The handler has raised a stored count of 1 to 2 on a job that was
\* PROCESSING.
C20_Witness == \E j \in JobIds : jobs[j].status = "PENDING" /\ jobs[j].retries = 2 /\ jobs[j].error_message = "error"

\* C21: a failure inside a stage surfaces at the top of process_file: the
\* step in which text extraction, parsing or one of the deduplicator's two
\* lookups raises takes the call to _handle_processing_error, so the call
\* never goes on to create a recipe.  A lookup that comes back empty
\* although a matching row is stored is one that raised.
C21_StageFailureSurfaces ==
    [][\A p \in Procs :
          LET c == content[proc[p].path]
          IN  /\ proc[p].pc = "mark_processing" /\ proc'[p].pc # "mark_processing" /\ ExtractRaises(proc[p].path) => proc'[p].pc = "err_get"
              /\ ParseRaises(p) => proc'[p].pc = "err_get"
              /\ FindExactDuplicateRaises(p) /\ ExactMatches(c) # {} => proc'[p].pc = "err_get"
              /\ FindSimilarRaises(p) /\ SimilarMatches(c) # {} => proc'[p].pc = "err_get"]_vars

\* The statuses in which a job is finalized.
FinalStatuses == {"COMPLETED", "COMPLETED_DUPLICATE", "FAILED", "DLQ"}

\* C22: a job that is COMPLETED, COMPLETED_DUPLICATE, FAILED or DLQ has its
\* source file out of the inbox: the step that finalizes a job, in the
\* pipeline or by a review decision, leaves no file at the job's source
\* path in the inbox.
C22_FinalizedFileLeftInbox ==
    [][\A j \in JobIds :
          jobs[j].status \notin FinalStatuses /\ jobs'[j].status \in FinalStatuses => ~inbox'[jobs'[j].source_path]]_vars

\* C23: for a recipe that passes every critical check validate_recipe
\* returns is_valid = TRUE, however many quality issues it reports and
\* however low the confidence is.
C23_QualityNeverInvalidates ==
    verdict.returned /\ _check_critical_issues(parsed_recipe) = <<>> => verdict.is_valid

\* The stored rows of a recipe id that agree with the recipe in normalized
\* cuisine, are within the tolerance in total time and reach the ratio in
\* normalized title.
SimilarRows(id, r, tolerance, ratio) ==
    {row \in StoredRows :
        /\ row.recipe_id = id
        /\ row.cuisine_normalized = _normalize_text(r.cuisine)
        /\ Abs(row.total_time_minutes - r.total_time_minutes) <= tolerance
        /\ partial_ratio(row.title_normalized, _normalize_text(r.title)) >= ratio}

\* C24, as stated: without an exact match check_duplicates returns
\* is_duplicate = FALSE and in similar_ids only stored recipes of the same
\* normalized cuisine, within 10 minutes of total time, with a title
\* similarity of at least 0.85.
C24_SimilarWithinTenMinutes ==
    check.pc = "returned" /\ check.searched =>
        /\ ~check.is_duplicate
        /\ \A id \in check.similar_ids : SimilarRows(id, check.recipe, 10, 85) # {}

\* C24, amended: the same with a tolerance of 15 minutes.
C24_SimilarWithinTolerance ==
    check.pc = "returned" /\ check.searched =>
        /\ ~check.is_duplicate
        /\ \A id \in check.similar_ids : SimilarRows(id, check.recipe, 15, 85) # {}

\* A stored recipe 12 minutes away from the candidate has been returned as
\* similar.
C24_Witness ==
    /\ check.pc = "returned"
    /\ ~check.is_duplicate
    /\ \E row \in StoredRows :
          /\ row.recipe_id \in check.similar_ids
          /\ Abs(row.total_time_minutes - check.recipe.total_time_minutes) = 12

\* The row of job j, or a row that no job has while j is not created.
JobRow(j) == IF j \in JobIds THEN jobs[j] ELSE [NewJob("none") EXCEPT !.status = "none"]

\* C25: while the service runs no job stays PENDING forever: a job that a
\* failed attempt has returned to PENDING is eventually picked up again and
\* leaves PENDING.
C25_PendingPickedUpAgain ==
    \A j \in 1..MaxJobs :
        (is_running /\ JobRow(j).status = "PENDING" /\ JobRow(j).error_message = "error")
            ~> (JobRow(j).status # "PENDING")

\* C26: under any interleaving of process_file calls at most one recipe is
\* persisted per fingerprint hash.
C26_OneRecipePerFingerprint ==
    \A i, k \in 1..Len(recipes) : FingerprintOf(recipes[i]) = FingerprintOf(recipes[k]) => i = k

\* C27: once a process_file call has written COMPLETED or
\* COMPLETED_DUPLICATE to its job, no later step of the call changes the
\* job's status, retries or error_message, and the call reports success.
C27_CompletedStaysCompleted ==
    [][\A p \in Procs :
          proc[p].job \in JobIds /\ jobs[proc[p].job].status \in {"COMPLETED", "COMPLETED_DUPLICATE"} =>
              /\ jobs'[proc[p].job].status = jobs[proc[p].job].status
              /\ jobs'[proc[p].job].retries = jobs[proc[p].job].retries
              /\ jobs'[proc[p].job].error_message = jobs[proc[p].job].error_message
              /\ proc'[p].pc = "returned" => proc'[p].res.success]_vars

\* C28: a review decision changes a job only if the job is in NEEDS_REVIEW,
\* and of review calls made at the same time on one job at most one takes
\* effect: a job that a review has moved on is not changed by another.
C28_OnlyNeedsReviewChanged ==
    [][review_row' # review_row => review_row.status = "NEEDS_REVIEW"]_vars

====
